---- MODULE Spec2Model ----
(***************************************************************************)
(* InsightBridge v4.5: the POST /validate pipeline (app/main.py) and the   *)
(* components it sequences: RateLimiter, JWTValidator, ReplayCache,        *)
(* TrustedScoreProvider and DecisionEngine.                                *)
(*                                                                         *)
(* Scheduling.  validate_token is an "async def" FastAPI endpoint: every   *)
(* request runs as a coroutine on one asyncio event loop, so the code      *)
(* between two awaits runs without interleaving.  The handler awaits       *)
(* decision_engine.make_decision (the score fetch) and                     *)
(* telemetry_logger.emit (which has no await inside and so never yields).  *)
(* A request is therefore two atomic steps: Begin (main.py 152-200) and    *)
(* Finish (main.py 203-251).                                               *)
(*                                                                         *)
(* Time is in whole seconds.  Token counts of the rate limiter are Python   *)
(* floats, held exactly as sixtieths of a token with a rounding error.     *)
(*                                                                         *)
(* Optional values (Python None) are sets: {} is None, {v} is v.  A claim  *)
(* that is absent from a payload is the string NoClaim.                    *)
(***************************************************************************)
EXTENDS Integers, Sequences, FiniteSets, TLC

VARIABLES
    now,            \* the wall clock, time.time() in whole seconds
    rl_state,       \* RateLimiter.state: key -> [tokens, last_update]
    replay_cache,   \* ReplayCache: [seen, jti_timestamps]
    metrics,        \* main.metrics
    pc,             \* per request: "idle", "fetch" (awaiting the score), "done"
    tok,            \* per request: the credential of the request body
    decoded,        \* per request: the handler's local `decoded`
    ts,             \* per request: the handler's local `timestamp`
    resp,           \* per request: the ValidateResponse returned
    calls,          \* per request: the component calls it made, in order
    fetched,        \* per request: what the backend in use answered the score fetch
    log,            \* per request: the records it wrote to the "insightbridge" logger
    lat,            \* per request: the latency_ms it measured
    phase,          \* the service: "starting", "serving" or "failed"
    key_file,       \* the file at jwt_public_key_path: "readable" or "unreadable"
    settings,       \* main.settings: [score_provider_type]
    utc_offset,     \* the local time zone of the process, in seconds east of UTC
    vTok, vNow, vAlg, vOut,    \* the verifier applied to one credential
    pType, pBackend, pOut, pWait,  \* the score provider applied to one backend
    lNow, lState, lOut, lAdm, lCalls, lRegressed,  \* the rate limiter alone
    cNow, cCache, cOut, cMax, cBefore,             \* the replay cache alone
    gEnv, gLimiter, gNow, gAdm, gCalls,            \* the rate limiter as configured
    kRedis, kUp, kDb, kPc, kLocal, kOut, kCalls    \* the cached score retrieval
                    \* (kUp: the repository behind it and the state of its redis)

verVars == <<vTok, vNow, vAlg, vOut>>
provVars == <<pType, pBackend, pOut, pWait>>
limVars == <<lNow, lState, lOut, lAdm, lCalls, lRegressed>>
repVars == <<cNow, cCache, cOut, cMax, cBefore>>
bootVars == <<phase, key_file, settings, utc_offset>>
confVars == <<gEnv, gLimiter, gNow, gAdm, gCalls>>
cacheVars == <<kRedis, kUp, kDb, kPc, kLocal, kOut, kCalls>>

vars == <<now, rl_state, replay_cache, metrics, pc, tok, decoded, ts, resp, calls,
          fetched, log, lat, verVars, provVars, limVars, repVars, bootVars,
          confVars, cacheVars>>

----------------------------------------------------------------------------
(* Bounds of the model *)

MaxReq == 2         \* requests of one run
MaxTick == 2        \* seconds the clock of a component run advances
BurstLen == 119     \* empty-credential requests served before the run starts
StartTime == 1000   \* the clock reading when the run starts
MaxBack == 1        \* seconds the clock of the rate limiter may be set back
MaxAhead == 1       \* seconds the clock of the pipeline gets ahead of StartTime
LimBurst == 198     \* calls of the rate limiter made before its run starts
LimCalls == 2       \* calls of the rate limiter in one run
MaxCallers == 2     \* concurrent get_score calls for one principal

(* Program constants *)

ALLOW_THRESHOLD == 70
MONITOR_THRESHOLD == 50
max_tokens == 120
CleanupEvery == 100
jwt_clock_drift_seconds == 30
rate_limit_requests_per_minute == 100
Unit == 60          \* sixtieths of a token: refill_rate = requests_per_minute / 60.0
MantissaBits == 52  \* fraction bits of a double: 53 significant bits
FractionBits == 58  \* binary places kept: the doubles from 1 / 60.0 up
MaxExponent == 16   \* floats of the model stay below 2^17

jwt_algorithm == "RS256"
score_provider_type == "database"
telemetry_emit_enabled == TRUE
replay_cache_max_size == 1000000
rate_limit_burst_size == 120
score_cache_ttl_seconds == 300

Requests == 1..MaxReq
NoClaim == "<absent>"
None == {}

----------------------------------------------------------------------------
(* models.py *)

Decision == {"ALLOW", "DENY", "MONITOR"}

DenyReason == {"EXPIRED_TOKEN", "NOT_YET_VALID", "REPLAY_DETECTED",
               "RATE_LIMIT_EXCEEDED", "INVALID_SIGNATURE", "LOW_SCORE",
               "MALFORMED_TOKEN", "INTERNAL_ERROR"}

\* ValidateResponse(decision, reason, request_id, timestamp, score);
\* reason and score are Optional.
ValidateResponse(decision, reason, request_id, timestamp, score) ==
    [decision |-> decision, reason |-> reason, request_id |-> request_id,
     timestamp |-> timestamp, score |-> score]

\* No response yet (the request is idle or in flight).
NoResp == [decision |-> "-", reason |-> None, request_id |-> 0,
           timestamp |-> 0, score |-> None]

\* What the caller gets when an exception leaves the handler at clock
\* reading t: FastAPI's general_exception_handler answers HTTP 500 with no
\* decision, with the X-Request-ID header of the request (Optional) or a
\* new uuid ("<uuid4>": str(uuid.uuid4()), an identifier no request
\* carries), and with datetime.utcnow().
Http500(header, t) ==
    [decision |-> "HTTP_500", reason |-> None,
     request_id |-> IF header = None THEN "<uuid4>" ELSE CHOOSE h \in header : TRUE,
     timestamp |-> t, score |-> None]

----------------------------------------------------------------------------
(* Credentials.  A credential is described by what jwt.decode and the      *)
(* validator read from it.                                                 *)

\* The payload has the numbers exp, nbf and iat (Optional), the texts sub
\* and jti (NoClaim: the key is absent), aud (Optional text) and "error"
\* (NoClaim, a text, or Unhashable).  `mistyped` names the claims among
\* exp, nbf, iat, sub and jti that are present with a JSON value of the
\* other type: a text that is no number for exp, nbf and iat, a number for
\* sub and jti.
Credential(raw, alg, sig, exp, nbf, sub, jti, score) ==
    [raw |-> raw, alg |-> alg, sig |-> sig, exp |-> exp, nbf |-> nbf, sub |-> sub,
     jti |-> jti, score |-> score, error |-> NoClaim, iat |-> None, aud |-> None,
     mistyped |-> {}]

\* The same credential with one more claim in its payload, or with the
\* claims of `value` mistyped (claim = "mistyped").
WithClaim(token, claim, value) == [token EXCEPT ![claim] = value]

Unhashable == "<list>"

FarExp == StartTime + 3600

\* The credentials requests of the pipeline carry.
tokA == Credential("jwt", "RS256", "good", {StartTime - jwt_clock_drift_seconds},
                   None, "high_user", "j1", None)
tokB == Credential("jwt", "RS256", "good", {FarExp}, None, "high_user", "j2", {99})
tokBadSig == Credential("jwt", "RS256", "bad", {FarExp}, None, "high_user", "j1", None)
tokNoJti == Credential("jwt", "RS256", "good", {FarExp}, None, "low_user", "", None)
tokEmpty == Credential("empty", "RS256", "good", None, None, NoClaim, NoClaim, None)
tokTextExp ==
    WithClaim(Credential("jwt", "RS256", "good", {FarExp}, None, "low_user", "j4", None),
              "mistyped", {"exp"})

\* With them: a credential under HS256, one not yet valid, one with an
\* empty sub, one of med_user, tokB with one more claim, "error", a
\* credential issued one second after the run starts (iat), and one whose
\* sub holds a lone surrogate (the JSON text "\ud800").
PipelineTokens ==
    {tokA, tokB, tokBadSig, tokNoJti, tokEmpty, tokTextExp,
     Credential("jwt", "HS256", "good", {FarExp}, None, "high_user", "j3", None),
     Credential("jwt", "RS256", "good", {FarExp},
                {StartTime + MaxTick + jwt_clock_drift_seconds + 1}, "high_user", "j5",
                None),
     Credential("jwt", "RS256", "good", {FarExp}, None, "", "j6", None),
     Credential("jwt", "RS256", "good", {FarExp}, None, "med_user", "j7", None),
     WithClaim(tokB, "error", "expired"), WithClaim(tokB, "error", "whatever"),
     WithClaim(tokB, "error", Unhashable),
     WithClaim(Credential("jwt", "RS256", "good", {FarExp}, None, "low_user", "j8", None),
               "iat", {StartTime + 1}),
     Credential("jwt", "RS256", "good", {FarExp}, None, "<lone surrogate>", "j9", None)}

----------------------------------------------------------------------------
(* Python floats.  The rate limiter computes in binary floating point      *)
(* (IEEE 754 double, round to nearest, ties to even).  A float is held     *)
(* exactly as Float(n, e): the number (n * 2^58 + e) / (60 * 2^58), that   *)
(* is n sixtieths and a rounding error of e units of 2^-58 / 60.  Every    *)
(* operation computes the exact result and rounds it to the 53 significant *)
(* bits of a double; |e| stays far below 2^52.                             *)

Float(n, e) == [n |-> n, e |-> e]

\* float(i) of an integer i.
float_of_int(i) == Float(i * Unit, 0)

\* (n * 2^58) mod (2 * 60 * 2^k) for n >= 0 and 0 <= k: the modulus is
\* 15 * 2^(k+3), and 2^4 = 1 (mod 15).
scaled_mod(n, k) ==
    2^(k + 3) * (((n % 15) * 2^((FractionBits - (k + 3)) % 4)) % 15)

\* x >= 2^k for a float x >= 0.
AtLeastPow2(x, k) ==
    IF k >= 0
    THEN x.n > Unit * 2^k \/ (x.n = Unit * 2^k /\ x.e >= 0)
    ELSE x.n * 2^(-k) > Unit \/ (x.n * 2^(-k) = Unit /\ x.e >= 0)

\* The binade [2^ex, 2^(ex+1)) of a float x >= 2^(52 - 58): the largest
\* exponent of the model at which x is at least the power of two.  The
\* exponents are those at which a double is coarser than 2^-58; below them
\* every multiple of 2^-58 is a double.
binade(x) ==
    CHOOSE k \in (MantissaBits - FractionBits) .. MaxExponent :
        AtLeastPow2(x, k) /\ (k = MaxExponent \/ ~AtLeastPow2(x, k + 1))

\* The spacing of the doubles of binade ex, 2^(ex - 52), in units of
\* 2^-58 / 60.
grid(ex) == Unit * 2^(ex - MantissaBits + FractionBits)

\* The exact value x modulo twice the spacing of binade ex.
grid_offset(x, ex) ==
    (scaled_mod(x.n, ex - MantissaBits + FractionBits) + x.e) % (2 * grid(ex))

\* x moved to the nearest multiple of G, m being x modulo 2G: the
\* remainder m % G is dropped or filled up to G, a tie goes to the even
\* multiple.
nearest(x, G, m) ==
    IF 2 * (m % G) < G \/ (2 * (m % G) = G /\ m < G)
    THEN Float(x.n, x.e - (m % G))
    ELSE Float(x.n, x.e + G - (m % G))

\* The double nearest to the exact value x >= 0.
round_nonneg(x) ==
    IF ~AtLeastPow2(x, MantissaBits - FractionBits) THEN x
    ELSE nearest(x, grid(binade(x)), grid_offset(x, binade(x)))

negate(x) == Float(-x.n, -x.e)

\* The double nearest to the exact value x.
float_round(x) ==
    IF x.n < 0 \/ (x.n = 0 /\ x.e < 0)
    THEN negate(round_nonneg(negate(x)))
    ELSE round_nonneg(x)

\* x + y, i * x and i / 60.0 of Python.
float_add(x, y) == float_round(Float(x.n + y.n, x.e + y.e))
float_mul_int(i, x) == float_round(Float(i * x.n, i * x.e))
float_div_60(i) == float_round(Float(i, 0))

\* x < i and x = i for a float x and an integer i.
float_lt_int(x, i) == x.n < i * Unit \/ (x.n = i * Unit /\ x.e < 0)
float_eq_int(x, i) == x.n = i * Unit /\ x.e = 0

----------------------------------------------------------------------------
(* core/rate_limiter.py *)

\* self.refill_rate of the limiter lifespan builds from the default
\* settings: requests_per_minute / 60.0.
refill_rate == float_div_60(rate_limit_requests_per_minute)

\* min(self.max_tokens, x): x when x < max_tokens, else the integer.
float_min(limit, x) == IF float_lt_int(x, limit) THEN x ELSE float_of_int(limit)

\* A variant that admits without consuming a token.
is_allowed_without_consuming(state, t) ==
    LET key == "global" IN
    IF key \notin DOMAIN state
    THEN [allowed |-> TRUE,
          state |-> (key :> [tokens |-> float_of_int(max_tokens), last_update |-> t])]
    ELSE LET elapsed == t - state[key].last_update
             tokens == float_min(max_tokens,
                           float_add(state[key].tokens,
                                     float_mul_int(elapsed, refill_rate)))
         IN  [allowed |-> ~float_lt_int(tokens, 1),
              state |-> (key :> [tokens |-> tokens, last_update |-> t])]

\* RateLimiter.is_allowed at clock reading t: <<allowed, new state>>.  No
\* statement of the try block raises on a state the limiter wrote itself,
\* so the except clause is never entered.
is_allowed(state, t) ==
    LET key == "global" IN
    IF key \notin DOMAIN state
    THEN [allowed |-> TRUE,
          state |-> (key :> [tokens |-> float_of_int(max_tokens - 1),
                             last_update |-> t])]
    ELSE LET elapsed == t - state[key].last_update
             tokens == float_min(max_tokens,
                           float_add(state[key].tokens,
                                     float_mul_int(elapsed, refill_rate)))
         IN  IF float_lt_int(tokens, 1)
             THEN [allowed |-> FALSE,
                   state |-> (key :> [tokens |-> tokens, last_update |-> t])]
             ELSE [allowed |-> TRUE,
                   state |-> (key :> [tokens |-> float_add(tokens, float_of_int(-1)),
                                      last_update |-> t])]

\* RateLimiter.__init__(requests_per_minute): the instance it builds.
RateLimiter(requests_per_minute) ==
    [max_tokens |-> max_tokens, refill_rate |-> float_div_60(requests_per_minute),
     state |-> <<>>]

\* RateLimiter.is_allowed on the instance self at clock reading t: the
\* answer and the instance with its new state.
is_allowed_of(self, t) ==
    LET key == "global" IN
    IF key \notin DOMAIN self.state
    THEN [allowed |-> TRUE,
          self |-> [self EXCEPT !.state =
                       (key :> [tokens |-> float_of_int(self.max_tokens - 1),
                                last_update |-> t])]]
    ELSE LET elapsed == t - self.state[key].last_update
             tokens == float_min(self.max_tokens,
                           float_add(self.state[key].tokens,
                                     float_mul_int(elapsed, self.refill_rate)))
         IN  IF float_lt_int(tokens, 1)
             THEN [allowed |-> FALSE,
                   self |-> [self EXCEPT !.state =
                                (key :> [tokens |-> tokens, last_update |-> t])]]
             ELSE [allowed |-> TRUE,
                   self |-> [self EXCEPT !.state =
                                (key :> [tokens |-> float_add(tokens, float_of_int(-1)),
                                         last_update |-> t])]]

----------------------------------------------------------------------------
(* config.py *)

\* The environment as far as the rate limiter is concerned: each variable
\* unset (None) or set to a number.
Env(requests_per_minute, burst_size) ==
    [RATE_LIMIT_REQUESTS_PER_MINUTE |-> requests_per_minute,
     RATE_LIMIT_BURST_SIZE |-> burst_size]

\* Settings(): a field takes the value of its environment variable, or its
\* default.
Settings(env) ==
    [rate_limit_requests_per_minute |->
         IF env.RATE_LIMIT_REQUESTS_PER_MINUTE = None
         THEN rate_limit_requests_per_minute
         ELSE CHOOSE n \in env.RATE_LIMIT_REQUESTS_PER_MINUTE : TRUE,
     rate_limit_burst_size |->
         IF env.RATE_LIMIT_BURST_SIZE = None THEN rate_limit_burst_size
         ELSE CHOOSE n \in env.RATE_LIMIT_BURST_SIZE : TRUE]

\* lifespan: rate_limiter = RateLimiter(settings.rate_limit_requests_per_minute)
build_rate_limiter(config) == RateLimiter(config.rate_limit_requests_per_minute)

----------------------------------------------------------------------------
(* core/jwt_validator.py *)

\* A variant that decodes with verify_signature False.
jwt_decode_unverified(token, algorithm, t) ==
    IF token.raw # "jwt" THEN "DecodeError" ELSE "ok"

\* jwt.decode(token, public_key, algorithms=[algorithm], options={verify_exp:
\* False, verify_nbf: False}) of PyJWT (2.10 and later) at clock reading
\* t: the exception it raises, or "ok".  The header is parsed first
\* (DecodeError), then the header's alg is looked up in `algorithms`
\* (InvalidAlgorithmError, a subclass of InvalidTokenError but not of
\* DecodeError), then the signature is verified (InvalidSignatureError),
\* then the claims are validated.  exp and nbf are not looked at.  The
\* options leave the other checks on and the call passes no leeway and no
\* audience: an iat claim that int() does not convert raises
\* InvalidIssuedAtError, an iat that lies after the clock reading
\* ImmatureSignatureError, an aud claim that is not empty
\* InvalidAudienceError, a sub that is no text InvalidSubjectError and a
\* jti that is no text InvalidJTIError.
jwt_decode(token, algorithm, t) ==
    IF token.raw # "jwt" THEN "DecodeError"
    ELSE IF token.alg # algorithm THEN "InvalidAlgorithmError"
    ELSE IF token.sig # "good" THEN "InvalidSignatureError"
    ELSE IF "iat" \in token.mistyped THEN "InvalidIssuedAtError"
    ELSE IF \E i \in token.iat : i > t THEN "ImmatureSignatureError"
    ELSE IF \E a \in token.aud : a # "" THEN "InvalidAudienceError"
    ELSE IF "sub" \in token.mistyped THEN "InvalidSubjectError"
    ELSE IF "jti" \in token.mistyped THEN "InvalidJTIError"
    ELSE "ok"

\* The two shapes validate_token returns: {"error": kind}, or the payload
\* as it is.  The field error is the value under the key "error", "none"
\* when the dictionary has no such key; a payload has that key when the
\* credential carries the claim.
VError(kind) ==
    [error |-> kind, sub |-> NoClaim, jti |-> NoClaim, exp |-> None,
     nbf |-> None, score |-> None]

VPayload(token) ==
    [error |-> IF token.error = NoClaim THEN "none" ELSE token.error,
     sub |-> token.sub, jti |-> token.jti, exp |-> token.exp,
     nbf |-> token.nbf, score |-> token.score]

\* The mapping of jwt.decode's exceptions by the except clauses: the last
\* one takes InvalidAlgorithmError and the exceptions of the claims.
decode_error(exc) ==
    CASE exc = "ExpiredSignatureError" -> "expired"
      [] exc = "InvalidSignatureError" -> "invalid_signature"
      [] exc = "DecodeError" -> "malformed"
      [] OTHER -> "malformed"

\* The manual exp check with clock drift.
exp_check(exp, t, clock_drift) == \E e \in exp : t > e + clock_drift

\* The manual nbf check with clock drift.
nbf_check(nbf, t, clock_drift) == \E n \in nbf : t < n - clock_drift

\* JWTValidator.validate_token at clock reading t.  The comparisons
\* now > exp + clock_drift and now < nbf - clock_drift stand outside the
\* try block: on an exp or an nbf that is no number they raise TypeError,
\* which leaves validate_token.
validate_token(token, t, algorithm, clock_drift) ==
    IF token.raw = "empty" THEN VError("malformed")
    ELSE IF jwt_decode(token, algorithm, t) # "ok"
         THEN VError(decode_error(jwt_decode(token, algorithm, t)))
    ELSE IF "exp" \in token.mistyped THEN VError("TypeError")
    ELSE IF token.exp = None THEN VError("malformed")
    ELSE IF exp_check(token.exp, t, clock_drift) THEN VError("expired")
    ELSE IF "nbf" \in token.mistyped THEN VError("TypeError")
    ELSE IF nbf_check(token.nbf, t, clock_drift) THEN VError("not_yet_valid")
    ELSE IF token.jti = NoClaim \/ token.sub = NoClaim THEN VError("malformed")
    ELSE VPayload(token)

----------------------------------------------------------------------------
(* core/replay_cache.py *)

\* A variant that takes only a missing jti for false, not the empty string.
Falsy_only_missing(s) == s = NoClaim

\* `not jti`: None and the empty string are false.
Falsy(s) == s = NoClaim \/ s = ""

EmptyCache == [seen |-> {}, jti_timestamps |-> <<>>]

\* A variant that also removes the entries with exp = now (<= for <).
cleanup_expired_inclusive(cache, t) ==
    LET expired == {j \in DOMAIN cache.jti_timestamps : cache.jti_timestamps[j] <= t}
    IN  [seen |-> cache.seen \ expired,
         jti_timestamps |-> [j \in (DOMAIN cache.jti_timestamps) \ expired |->
                                cache.jti_timestamps[j]]]

\* ReplayCache._cleanup_expired at clock reading t.
cleanup_expired(cache, t) ==
    LET expired == {j \in DOMAIN cache.jti_timestamps : cache.jti_timestamps[j] < t}
    IN  [seen |-> cache.seen \ expired,
         jti_timestamps |-> [j \in (DOMAIN cache.jti_timestamps) \ expired |->
                                cache.jti_timestamps[j]]]

\* A variant that looks the jti up in jti_timestamps instead of seen.
is_replayed_by_timestamps(cache, jti, t) ==
    IF Falsy(jti) THEN [result |-> TRUE, cache |-> cache]
    ELSE [result |-> jti \in DOMAIN cache.jti_timestamps, cache |-> cache]

\* ReplayCache.is_replayed: the answer and the cache it leaves.
is_replayed(cache, jti, t) ==
    IF Falsy(jti) THEN [result |-> TRUE, cache |-> cache]
    ELSE LET c == IF Cardinality(cache.seen) % CleanupEvery = 0
                  THEN cleanup_expired(cache, t) ELSE cache
         IN  [result |-> jti \in c.seen, cache |-> c]

\* A variant that stores the jti only together with an exp.
record_only_with_exp(cache, jti, exp) ==
    IF Falsy(jti) \/ exp = None THEN cache
    ELSE [seen |-> cache.seen \cup {jti},
          jti_timestamps |->
              [j \in (DOMAIN cache.jti_timestamps) \cup {jti} |->
                  IF j = jti THEN CHOOSE e \in exp : TRUE
                  ELSE cache.jti_timestamps[j]]]

\* ReplayCache.record(jti, exp=None): exp is an Optional[int].
record(cache, jti, exp) ==
    IF Falsy(jti) THEN cache
    ELSE [seen |-> cache.seen \cup {jti},
          jti_timestamps |->
              IF \E e \in exp : e # 0
              THEN [j \in (DOMAIN cache.jti_timestamps) \cup {jti} |->
                      IF j = jti THEN CHOOSE e \in exp : TRUE
                      ELSE cache.jti_timestamps[j]]
              ELSE cache.jti_timestamps]

----------------------------------------------------------------------------
(* core/score_provider.py and the score repository behind it *)

\* What one call of a backend can produce: an integer, no record (None),
\* an exception, a value that is no number ("str"), or a number with a
\* fractional part: Reply("float", v) is the float v + 0.5.
Reply(k, v) == [k |-> k, v |-> v]

\* What a backend answers in the model.  The integer scores: the two
\* thresholds, their predecessors, and one value on each side of the range
\* 0..100.
BackendReplies ==
    {Reply("int", s) : s \in {-1, MONITOR_THRESHOLD - 1, MONITOR_THRESHOLD,
                              ALLOW_THRESHOLD - 1, ALLOW_THRESHOLD, 101}}
        \cup {Reply("none", 0), Reply("raise", 0), Reply("str", 0),
              Reply("float", ALLOW_THRESHOLD)}

\* The backends behind one get_score call of the provider: what
\* score_repo.get_score and score_repo.get_cached_score answer, whether
\* score_repo.cache_score succeeds ("ok") or raises, and what the external
\* API answers ("none": a JSON body without the key "score").
Backend(db, cache, write, api) ==
    [db |-> db, cache |-> cache, write |-> write, api |-> api]

\* user_id.startswith(prefix) on the subs of the model: high_user begins
\* with "high", med_user with "med".
startswith(user_id, prefix) ==
    CASE prefix = "high" -> user_id \in {"high_user"}
      [] prefix = "med" -> user_id \in {"med_user"}
      [] OTHER -> FALSE

\* MockScoreRepository.get_score of main.py: a function of the user id.
MockScoreRepository_get_score(user_id) ==
    IF startswith(user_id, "high") THEN 95
    ELSE IF startswith(user_id, "med") THEN 50
    ELSE 5

\* The backends of the provider lifespan builds: the MockScoreRepository
\* (get_cached_score returns None, cache_score passes) and the external
\* API, which answers `api`.
MockScoreRepository(user_id, api) ==
    Backend(Reply("int", MockScoreRepository_get_score(user_id)), Reply("none", 0),
            "ok", api)

\* The backend get_score reads under a provider type.
backend_in_use(provider_type) ==
    CASE provider_type \in {"database", "redis"} -> "db"
      [] provider_type = "external_api" -> "api"
      [] OTHER -> "-"

\* What a backend method hands back, with the backend calls it made.
Result(reply, made) == [k |-> reply.k, v |-> reply.v, calls |-> made]

\* TrustedScoreProvider._get_from_database: None becomes 0, an exception
\* of the repository propagates.
get_from_database(B) ==
    Result(IF B.db.k = "none" THEN Reply("int", 0) ELSE B.db, <<"get_score">>)

\* TrustedScoreProvider._get_from_redis: the cache first, then the record
\* store, whose score is written to the cache.
get_from_redis(B) ==
    IF B.cache.k # "none" THEN Result(B.cache, <<"get_cached_score">>)
    ELSE IF B.db.k = "raise"
         THEN Result(B.db, <<"get_cached_score", "get_score">>)
    ELSE IF B.db.k # "none"
         THEN Result(IF B.write = "raise" THEN Reply("raise", 0) ELSE B.db,
                     <<"get_cached_score", "get_score", "cache_score">>)
    ELSE Result(Reply("int", 0), <<"get_cached_score", "get_score">>)

\* TrustedScoreProvider._get_from_api: data.get("score", 0); any exception
\* yields 0.
get_from_api(B) ==
    Result(IF B.api.k \in {"none", "raise"} THEN Reply("int", 0) ELSE B.api,
           <<"client.get">>)

\* _get_from_redis one await at a time.  Waiting(stage, score) is what the
\* coroutine holds while it is suspended: the repository call it awaits
\* and its local `score`.
Waiting(stage, score) == [stage |-> stage, score |-> score]
NotWaiting == Waiting("-", Reply("-", 0))

\* What get_score has come to after a step: its result, or the await it
\* is suspended at; `made` are the backend calls that have returned.
Progress(out, wait) == [out |-> out, wait |-> wait]

\* Line 47-49: get_cached_score returns; a value is returned to the caller
\* (an exception ends in get_score's except clause), None leads to the
\* await of score_repo.get_score.
redis_lookup(B) ==
    IF B.cache.k = "raise"
    THEN Progress(Result(Reply("int", 0), <<"get_cached_score">>), NotWaiting)
    ELSE IF B.cache.k # "none"
    THEN Progress(Result(B.cache, <<"get_cached_score">>), NotWaiting)
    ELSE Progress(Result(Reply("-", 0), <<"get_cached_score">>),
                  Waiting("get_score", Reply("-", 0)))

\* Line 52-53, 59: score_repo.get_score returns; a score leads to the await
\* of cache_score, None is answered 0, an exception 0 (by get_score).
redis_record(B, made) ==
    IF B.db.k \in {"none", "raise"}
    THEN Progress(Result(Reply("int", 0), Append(made, "get_score")), NotWaiting)
    ELSE Progress(Result(Reply("-", 0), Append(made, "get_score")),
                  Waiting("cache_score", B.db))

\* Line 56-57: cache_score returns and the score is returned; an exception
\* of cache_score ends in get_score's except clause.
redis_write(B, made, score) ==
    Progress(Result(IF B.write = "raise" THEN Reply("int", 0) ELSE score,
                    Append(made, "cache_score")),
             NotWaiting)

\* The value redis holds under score:<user_id> after setex(key, ttl, score):
\* the decimal text of the score, with its time to live.
CacheEntry(score, ttl) == [text |-> [decimal_of |-> score], ttl |-> ttl]

\* `if cached` on what redis.get returned: None is false, the text of a
\* number is not empty and so true, also the text "0".
truthy(cached) == cached # None

\* int(cached) on the decimal text of a number.
int_of(text) == text.decimal_of

\* What a repository method does: it returns a value, or it raises.
Returned(value) == [raised |-> FALSE, value |-> value]
AttributeError == [raised |-> TRUE, value |-> None]

\* ScoreRepository.get_cached_score and .cache_score (repositories.py 21-27),
\* which the MockScoreRepository of main.py repeats: None, and pass.
ScoreRepository_get_cached_score == Returned(None)
ScoreRepository_cache_score(entry) ==
    [raised |-> FALSE, stored |-> FALSE, entry |-> entry]

\* A variant that takes a cached 0 for no value (`if int(cached)`).
get_cached_score_zero_is_miss(up, entry) ==
    IF up = "unset" THEN AttributeError
    ELSE IF up # "up" THEN Returned(None)
    ELSE IF entry # None /\ (\E e \in entry : int_of(e.text) # 0)
         THEN Returned({int_of(e.text) : e \in entry})
    ELSE Returned(None)

\* The redis-backed get_cached_score (repositories.py 71-79), a method of
\* the class ReplayRepository as the file stands.  No statement that runs
\* assigns self.redis (lines 60-61 follow a return): on an instance as the
\* class builds it ("unset") the test `if not self.redis` raises
\* AttributeError, outside the try block.  On an instance that was given
\* the attribute: None without a redis client ("absent"), None when
\* redis.get raises ("down"), else int(cached), or None when there is no
\* entry.
get_cached_score(up, entry) ==
    IF up = "unset" THEN AttributeError
    ELSE IF up = "absent" THEN Returned(None)
    ELSE IF up = "down" THEN Returned(None)
    ELSE IF truthy(entry) THEN Returned({int_of(e.text) : e \in entry})
    ELSE Returned(None)

\* A variant without the try block: an exception of redis.setex propagates.
cache_score_raising(up, entry, score, ttl) ==
    IF up = "unset" THEN [raised |-> TRUE, stored |-> FALSE, entry |-> entry]
    ELSE IF up = "absent" THEN [raised |-> FALSE, stored |-> FALSE, entry |-> entry]
    ELSE IF up = "down" THEN [raised |-> TRUE, stored |-> FALSE, entry |-> entry]
    ELSE [raised |-> FALSE, stored |-> TRUE, entry |-> {CacheEntry(score, ttl)}]

\* The redis-backed cache_score (repositories.py 81-88), of the same class:
\* AttributeError on an instance without the attribute redis; with it, the
\* method returns without a redis client, stores the score with setex, and
\* passes over an exception of redis.
cache_score(up, entry, score, ttl) ==
    IF up = "unset" THEN [raised |-> TRUE, stored |-> FALSE, entry |-> entry]
    ELSE IF up = "absent" THEN [raised |-> FALSE, stored |-> FALSE, entry |-> entry]
    ELSE IF up = "down" THEN [raised |-> FALSE, stored |-> FALSE, entry |-> entry]
    ELSE [raised |-> FALSE, stored |-> TRUE, entry |-> {CacheEntry(score, ttl)}]

\* self.score_repo.get_cached_score and .cache_score of the provider, on
\* the repository `repo`: "mock" is the ScoreRepository, every other value
\* an instance with the redis-backed methods.
score_repo_get_cached_score(repo, entry) ==
    IF repo = "mock" THEN ScoreRepository_get_cached_score
    ELSE get_cached_score(repo, entry)

score_repo_cache_score(repo, entry, score, ttl) ==
    IF repo = "mock" THEN ScoreRepository_cache_score(entry)
    ELSE cache_score(repo, entry, score, ttl)

\* One call of the score repository as _get_from_redis makes it, with its
\* arguments and what it returned.
RepoCall(op, args, result) == [op |-> op, args |-> args, result |-> result]

\* A variant without the except clause: an exception of the backend
\* propagates to the caller.
get_score_propagating(provider_type, B) ==
    CASE provider_type = "database" -> get_from_database(B)
      [] provider_type = "redis" -> get_from_redis(B)
      [] provider_type = "external_api" -> get_from_api(B)
      [] OTHER -> Result(Reply("int", 0), <<>>)

\* TrustedScoreProvider.get_score: the backend is selected by provider_type,
\* an unknown type and any exception yield 0.
get_score(provider_type, B) ==
    LET r == CASE provider_type = "database" -> get_from_database(B)
               [] provider_type = "redis" -> get_from_redis(B)
               [] provider_type = "external_api" -> get_from_api(B)
               [] OTHER -> Result(Reply("int", 0), <<>>)
    IN  IF r.k = "raise" THEN Result(Reply("int", 0), r.calls) ELSE r

\* get_score from its call to the return of the first backend call it
\* awaits.
get_score_begin(provider_type, B) ==
    IF provider_type = "redis" THEN redis_lookup(B)
    ELSE Progress(get_score(provider_type, B), NotWaiting)

----------------------------------------------------------------------------
(* core/decision_engine.py *)

\* A variant with the thresholds exclusive (> for >=).
decide_exclusive(score) ==
    IF score > ALLOW_THRESHOLD THEN "ALLOW"
    ELSE IF score > MONITOR_THRESHOLD THEN "MONITOR"
    ELSE "DENY"

\* The threshold cascade of make_decision on an integer score.
decide(score) ==
    IF score >= ALLOW_THRESHOLD THEN "ALLOW"
    ELSE IF score >= MONITOR_THRESHOLD THEN "MONITOR"
    ELSE "DENY"

\* DecisionEngine.make_decision(user_id) on the provider of type
\* provider_type over the backends B: fetches the score of user_id and
\* maps it.  Comparing a score that is no number raises TypeError; a float
\* v + 0.5 compares with the integer thresholds as v does and is returned
\* as it is (kind "float").
make_decision(provider_type, B) ==
    LET score == get_score(provider_type, B) IN
    IF score.k \notin {"int", "float"}
    THEN [raised |-> TRUE, decision |-> "-", score |-> 0, kind |-> "-"]
    ELSE [raised |-> FALSE, decision |-> decide(score.v), score |-> score.v,
          kind |-> score.k]

----------------------------------------------------------------------------
(* telemetry/logger.py and the events of models.py *)

\* A datetime object, as datetime.utcnow() returns it.
Datetime(t) == [type |-> "datetime", at |-> t]

\* DecisionEvent and ErrorEvent as event.dict() returns them: the fields as
\* Python objects, the timestamp still a datetime.
DecisionEvent(decision, reason, score, user_id_hash, request_id, timestamp, latency) ==
    [event_type |-> "gateway.decision.made", request_id |-> request_id,
     timestamp |-> Datetime(timestamp), decision |-> decision, reason |-> reason,
     score |-> score, user_id_hash |-> user_id_hash, latency_ms |-> latency]

ErrorEvent(error_type, request_id, timestamp) ==
    [event_type |-> "gateway.error", request_id |-> request_id,
     timestamp |-> Datetime(timestamp), error_type |-> error_type]

\* One record of the "insightbridge" logger.
LogRecord(level, message, request_id) ==
    [level |-> level, message |-> message, request_id |-> request_id]

\* json.dumps(event_dict) without default=: a datetime value is not JSON
\* serializable and raises TypeError.
json_dumps(event_dict) ==
    IF event_dict.timestamp.type = "datetime" THEN "TypeError" ELSE "ok"

\* TelemetryLogger.emit: the records it writes.  The event goes to
\* logger.info as JSON; an exception on the way is caught and reported with
\* logger.error.
emit(event) ==
    IF ~telemetry_emit_enabled THEN <<>>
    ELSE IF json_dumps(event) # "ok"
         THEN <<LogRecord("ERROR", "Failed to emit telemetry", event.request_id)>>
    ELSE <<LogRecord("INFO", event.event_type, event.request_id)>>

----------------------------------------------------------------------------
(* main.py: validate_token *)

Metrics0 ==
    [total_requests |-> 0, allow_count |-> 0, deny_count |-> 0,
     monitor_count |-> 0, total_latency_ms |-> 0, rate_limit_hits |-> 0,
     replay_detections |-> 0, active_users |-> 0]

\* A variant of the dictionary without the key "not_yet_valid".
reason_map_without_not_yet_valid(error) ==
    CASE error = "expired" -> "EXPIRED_TOKEN"
      [] error = "invalid_signature" -> "INVALID_SIGNATURE"
      [] error = "malformed" -> "MALFORMED_TOKEN"
      [] OTHER -> "INTERNAL_ERROR"

\* reason_map.get(decoded["error"], DenyReason.INTERNAL_ERROR)
reason_map(error) ==
    CASE error = "expired" -> "EXPIRED_TOKEN"
      [] error = "not_yet_valid" -> "NOT_YET_VALID"
      [] error = "invalid_signature" -> "INVALID_SIGNATURE"
      [] error = "malformed" -> "MALFORMED_TOKEN"
      [] OTHER -> "INTERNAL_ERROR"

\* A variant that answers a denial with score 0 instead of None.
Deny_with_score_zero(reason, request_id, timestamp) ==
    ValidateResponse("DENY", {reason}, request_id, timestamp, {0})

Deny(reason, request_id, timestamp) ==
    ValidateResponse("DENY", {reason}, request_id, timestamp, None)

\* A variant without the except clause: the exception leaves the handler.
handle_exception_propagates(m, request_id, timestamp) ==
    [metrics |-> m, resp |-> Http500({request_id}, timestamp), log |-> <<>>,
     latency_ms |-> None]

\* The except clause of the handler (main.py 234-251).
handle_exception(m, request_id, timestamp) ==
    [metrics |-> [m EXCEPT !.deny_count = @ + 1],
     resp |-> Deny("INTERNAL_ERROR", request_id, timestamp),
     log |-> IF telemetry_emit_enabled
             THEN emit(ErrorEvent("Exception", request_id, timestamp))
             ELSE <<>>,
     latency_ms |-> None]

\* A variant that gives the token back when the credential is refused by
\* the verifier or the replay check.
BeginStep_refunding(S, token, t, request_id) ==
    LET m == [S.metrics EXCEPT !.total_requests = @ + 1]
        denied == [m EXCEPT !.deny_count = @ + 1]
        rl == is_allowed(S.rl, t)
        dec == validate_token(token, t, jwt_algorithm, jwt_clock_drift_seconds)
        rp == is_replayed(S.cache, dec.jti, t)
    IN  IF ~rl.allowed
        THEN [rl |-> rl.state, cache |-> S.cache, metrics |-> denied,
              pc |-> "done", decoded |-> VError("-"),
              resp |-> Deny("RATE_LIMIT_EXCEEDED", request_id, t),
              calls |-> <<"is_allowed">>, log |-> <<>>]
        ELSE IF dec.error = "TypeError"
        THEN [rl |-> S.rl, cache |-> S.cache,
              metrics |-> handle_exception(m, request_id, t).metrics,
              pc |-> "done", decoded |-> dec,
              resp |-> handle_exception(m, request_id, t).resp,
              calls |-> <<"is_allowed", "validate_token">>,
              log |-> handle_exception(m, request_id, t).log]
        ELSE IF dec.error = Unhashable
        THEN [rl |-> S.rl, cache |-> S.cache,
              metrics |-> handle_exception(m, request_id, t).metrics,
              pc |-> "done", decoded |-> dec,
              resp |-> handle_exception(m, request_id, t).resp,
              calls |-> <<"is_allowed", "validate_token">>,
              log |-> handle_exception(m, request_id, t).log]
        ELSE IF dec.error # "none"
        THEN [rl |-> S.rl, cache |-> S.cache, metrics |-> denied,
              pc |-> "done", decoded |-> dec,
              resp |-> Deny(reason_map(dec.error), request_id, t),
              calls |-> <<"is_allowed", "validate_token">>, log |-> <<>>]
        ELSE IF rp.result
        THEN [rl |-> S.rl, cache |-> rp.cache, metrics |-> denied,
              pc |-> "done", decoded |-> dec,
              resp |-> Deny("REPLAY_DETECTED", request_id, t),
              calls |-> <<"is_allowed", "validate_token", "is_replayed">>,
              log |-> <<>>]
        ELSE [rl |-> rl.state, cache |-> record(rp.cache, dec.jti, None),
              metrics |-> m, pc |-> "fetch", decoded |-> dec, resp |-> NoResp,
              calls |-> <<"is_allowed", "validate_token", "is_replayed", "record">>,
              log |-> <<>>]

\* The handler from its first line to the await of make_decision
\* (main.py 152-200), run at clock reading t on the component state
\* S = [rl, cache, metrics]: the state it leaves, and either the response
\* it returns (pc "done") or the suspension at the score fetch (pc "fetch").
\* Step 2 tests `"error" in decoded` on whatever validate_token returned:
\* a verified payload with a claim "error" is answered like a failed
\* verification, and reason_map.get raises TypeError on a value that is
\* not hashable.
BeginStep(S, token, t, request_id) ==
    LET m == [S.metrics EXCEPT !.total_requests = @ + 1]
        denied == [m EXCEPT !.deny_count = @ + 1]
        rl == is_allowed(S.rl, t)
        dec == validate_token(token, t, jwt_algorithm, jwt_clock_drift_seconds)
        rp == is_replayed(S.cache, dec.jti, t)
    IN  IF ~rl.allowed
        THEN [rl |-> rl.state, cache |-> S.cache, metrics |-> denied,
              pc |-> "done", decoded |-> VError("-"),
              resp |-> Deny("RATE_LIMIT_EXCEEDED", request_id, t),
              calls |-> <<"is_allowed">>, log |-> <<>>]
        ELSE IF dec.error = "TypeError"
        THEN [rl |-> rl.state, cache |-> S.cache,
              metrics |-> handle_exception(m, request_id, t).metrics,
              pc |-> "done", decoded |-> dec,
              resp |-> handle_exception(m, request_id, t).resp,
              calls |-> <<"is_allowed", "validate_token">>,
              log |-> handle_exception(m, request_id, t).log]
        ELSE IF dec.error = Unhashable
        THEN [rl |-> rl.state, cache |-> S.cache,
              metrics |-> handle_exception(m, request_id, t).metrics,
              pc |-> "done", decoded |-> dec,
              resp |-> handle_exception(m, request_id, t).resp,
              calls |-> <<"is_allowed", "validate_token">>,
              log |-> handle_exception(m, request_id, t).log]
        ELSE IF dec.error # "none"
        THEN [rl |-> rl.state, cache |-> S.cache, metrics |-> denied,
              pc |-> "done", decoded |-> dec,
              resp |-> Deny(reason_map(dec.error), request_id, t),
              calls |-> <<"is_allowed", "validate_token">>, log |-> <<>>]
        ELSE IF rp.result
        THEN [rl |-> rl.state, cache |-> rp.cache, metrics |-> denied,
              pc |-> "done", decoded |-> dec,
              resp |-> Deny("REPLAY_DETECTED", request_id, t),
              calls |-> <<"is_allowed", "validate_token", "is_replayed">>,
              log |-> <<>>]
        ELSE [rl |-> rl.state, cache |-> record(rp.cache, dec.jti, None),
              metrics |-> m, pc |-> "fetch", decoded |-> dec, resp |-> NoResp,
              calls |-> <<"is_allowed", "validate_token", "is_replayed", "record">>,
              log |-> <<>>]

\* Step 4 of the handler: user_id = decoded.get("sub") goes to make_decision
\* of the engine lifespan built; the external API answers `api`.  The API
\* is asked at the URL .../users/{user_id}/score: for a user_id holding a
\* lone surrogate client.get raises before anything is sent (the URL
\* cannot be encoded), whatever the API would answer.
score_step(provider_type, dec, api) ==
    make_decision(provider_type,
                  MockScoreRepository(dec.sub,
                                      IF dec.sub = "<lone surrogate>"
                                      THEN Reply("raise", 0) ELSE api))

\* A variant that attaches LOW_SCORE to every verdict but ALLOW.
low_score_reason_not_allow(decision) ==
    IF decision # "ALLOW" THEN {"LOW_SCORE"} ELSE None

\* reason=DenyReason.LOW_SCORE if decision == Decision.DENY else None
low_score_reason(decision) ==
    IF decision = "DENY" THEN {"LOW_SCORE"} ELSE None

\* TrustedScoreProvider.hash_user_id: hashlib.sha256(user_id.encode());
\* str.encode raises UnicodeEncodeError on a lone surrogate.
hash_user_id(user_id) ==
    IF user_id = "<lone surrogate>" THEN [raised |-> TRUE, value |-> None]
    ELSE [raised |-> FALSE, value |-> {<<"sha256", user_id>>}]

\* int((time.time() - timestamp.timestamp()) * 1000) at clock reading t.
\* timestamp.timestamp() of the naive datetime that datetime.utcnow()
\* returned at clock reading `timestamp` is timestamp - offset: Python
\* reads a naive datetime as local time.
latency_ms(t, timestamp, offset) == (t - (timestamp - offset)) * 1000

\* Step 5 of the handler (main.py 206-211): the counter of the verdict.
count_verdict(m, decision) ==
    IF decision = "ALLOW" THEN [m EXCEPT !.allow_count = @ + 1]
    ELSE IF decision = "DENY" THEN [m EXCEPT !.deny_count = @ + 1]
    ELSE [m EXCEPT !.monitor_count = @ + 1]

\* The handler from the return of the score fetch to its end
\* (main.py 203-251), which it reaches at clock reading t in the process
\* P = [score_provider_type, utc_offset].  With telemetry enabled the
\* arguments of DecisionEvent are computed first, hash_user_id(user_id)
\* among them (line 219), which can raise.  The score goes
\* into the Optional[int] field score of DecisionEvent (telemetry enabled,
\* line 215) or of ValidateResponse (line 226): for a number with a
\* fractional part pydantic raises ValidationError.  Both raise inside the
\* try block and after step 5 has counted the verdict.
FinishStep(P, m, dec, api, timestamp, request_id, t) ==
    LET d == score_step(P.score_provider_type, dec, api) IN
    IF d.raised THEN handle_exception(m, request_id, timestamp)
    ELSE IF (telemetry_emit_enabled /\ hash_user_id(dec.sub).raised) \/ d.kind # "int"
    THEN handle_exception(count_verdict(m, d.decision), request_id, timestamp)
    ELSE [latency_ms |-> IF telemetry_emit_enabled
                         THEN {latency_ms(t, timestamp, P.utc_offset)} ELSE None,
          metrics |-> count_verdict(m, d.decision),
          resp |-> ValidateResponse(d.decision, low_score_reason(d.decision),
                                    request_id, timestamp, {d.score}),
          log |-> IF telemetry_emit_enabled
                  THEN emit(DecisionEvent(d.decision, low_score_reason(d.decision),
                                          d.score, hash_user_id(dec.sub).value,
                                          request_id, timestamp,
                                          latency_ms(t, timestamp, P.utc_offset)))
                  ELSE <<>>]

\* GET /metrics: the counters, and avg_latency_ms as the quotient
\* total_latency_ms / (total_requests or 1), kept as numerator and
\* denominator.
get_metrics(m) ==
    [total_requests |-> m.total_requests, allow_count |-> m.allow_count,
     deny_count |-> m.deny_count, monitor_count |-> m.monitor_count,
     avg_latency_ms |->
         [num |-> m.total_latency_ms,
          den |-> IF m.total_requests # 0 THEN m.total_requests ELSE 1],
     rate_limit_hits |-> m.rate_limit_hits,
     replay_detections |-> m.replay_detections, active_users |-> m.active_users]

----------------------------------------------------------------------------
(* The pipeline as a state machine *)

\* The component state a BeginStep leaves.
Components(b) == [rl |-> b.rl, cache |-> b.cache, metrics |-> b.metrics]

Constructed == [rl |-> <<>>, cache |-> EmptyCache, metrics |-> Metrics0]

\* The components after n more requests with the empty credential were
\* served at StartTime (each runs to completion: that path has no await).
\* The burst is served in two halves to keep the evaluation shallow.
RECURSIVE AfterBurst(_, _)
AfterBurst(n, S) ==
    IF n = 0 THEN S
    ELSE IF n = 1 THEN Components(BeginStep(S, tokEmpty, StartTime, 0))
    ELSE LET S1 == AfterBurst(n \div 2, S)
         IN  IF S1.metrics.total_requests > 0
             THEN AfterBurst(n - (n \div 2), S1) ELSE S

PipeInit ==
    /\ now = StartTime
    /\ \E n \in {0, BurstLen} :
          LET S == AfterBurst(n, Constructed)
          IN  /\ rl_state = S.rl
              /\ replay_cache = S.cache
              /\ metrics = S.metrics
    /\ pc = [r \in Requests |-> "idle"]
    /\ tok = [r \in Requests |-> tokEmpty]
    /\ decoded = [r \in Requests |-> VError("-")]
    /\ ts = [r \in Requests |-> 0]
    /\ resp = [r \in Requests |-> NoResp]
    /\ calls = [r \in Requests |-> <<>>]
    /\ fetched = [r \in Requests |-> None]
    /\ log = [r \in Requests |-> <<>>]
    /\ lat = [r \in Requests |-> None]

VerIdle ==
    /\ vTok = tokEmpty
    /\ vNow = StartTime
    /\ vAlg = jwt_algorithm
    /\ vOut = VError("-")

\* The provider and the rate limiter of the separate runs, not yet used.
ProvIdle ==
    /\ pType = score_provider_type
    /\ pBackend = MockScoreRepository("", Reply("none", 0))
    /\ pOut = Result(Reply("-", 0), <<>>)
    /\ pWait = NotWaiting

LimIdle ==
    /\ lNow = StartTime
    /\ lState = <<>>
    /\ lOut = [called |-> FALSE, allowed |-> TRUE, regression |-> FALSE]
    /\ lAdm = <<>>
    /\ lCalls = [total |-> 0, run |-> 0]
    /\ lRegressed = FALSE

\* The replay cache of the separate run, not yet used.
RepIdle ==
    /\ cNow = StartTime
    /\ cCache = EmptyCache
    /\ cOut = [op |-> "-", jti |-> "", result |-> FALSE]
    /\ cMax = replay_cache_max_size
    /\ cBefore = {}

\* The rate limiter of the configuration run and the cached retrieval, not
\* yet used.
ConfIdle ==
    /\ gEnv = Env(None, None)
    /\ gLimiter = None
    /\ gNow = StartTime
    /\ gAdm = 0
    /\ gCalls = 0

Callers == 1..MaxCallers

CacheIdle ==
    /\ kRedis = None
    /\ kUp = "absent"
    /\ kDb = Reply("none", 0)
    /\ kPc = [c \in Callers |-> "idle"]
    /\ kLocal = [c \in Callers |-> None]
    /\ kOut = [c \in Callers |-> None]
    /\ kCalls = [c \in Callers |-> <<>>]

\* The settings as far as the score provider is concerned.
ProviderSettings(provider_type) == [score_provider_type |-> provider_type]

\* lifespan has constructed the components from a readable key file, in
\* the process with the default settings, in UTC.
Serving ==
    /\ phase = "serving" /\ key_file = "readable"
    /\ settings = ProviderSettings(score_provider_type)
    /\ utc_offset = 0

\* The processes of the model: SCORE_PROVIDER_TYPE and the time zone (UTC,
\* Asia/Tokyo, America/New_York).
Configured ==
    \E p \in {<<"database", 0>>, <<"external_api", 0>>, <<"redis", 32400>>,
              <<"database", -18000>>} :
        /\ settings = ProviderSettings(p[1])
        /\ utc_offset = p[2]

Init ==
    /\ PipeInit /\ VerIdle /\ ProvIdle /\ LimIdle /\ RepIdle /\ ConfIdle /\ CacheIdle
    /\ phase = "serving" /\ key_file = "readable" /\ Configured

\* The process as FinishStep reads it.
Process ==
    [score_provider_type |-> settings.score_provider_type, utc_offset |-> utc_offset]

\* What the external API can answer a request of the process: nothing is
\* asked of it unless the provider type is external_api.
ApiAnswers ==
    IF settings.score_provider_type = "external_api" THEN BackendReplies
    ELSE {Reply("-", 0)}

\* What the backend in use answered the score fetch for user_id; client.get
\* raises without asking the API when user_id cannot be encoded in the URL.
backend_answer(provider_type, user_id, api) ==
    CASE backend_in_use(provider_type) = "db" ->
             {Reply("int", MockScoreRepository_get_score(user_id))}
      [] backend_in_use(provider_type) = "api" ->
             {IF user_id = "<lone surrogate>" THEN Reply("raise", 0) ELSE api}
      [] OTHER -> None

\* The component state of the current state.
Here == [rl |-> rl_state, cache |-> replay_cache, metrics |-> metrics]

\* A request arrives with credential t and runs to its first suspension.
\* Requests are numbered in the order they arrive.
Begin(r, t) ==
    /\ phase = "serving"
    /\ pc[r] = "idle"
    /\ \A q \in Requests : q < r => pc[q] # "idle"
    /\ LET b == BeginStep(Here, t, now, r)
       IN  /\ rl_state' = b.rl
           /\ replay_cache' = b.cache
           /\ metrics' = b.metrics
           /\ pc' = [pc EXCEPT ![r] = b.pc]
           /\ decoded' = [decoded EXCEPT ![r] = b.decoded]
           /\ resp' = [resp EXCEPT ![r] = b.resp]
           /\ calls' = [calls EXCEPT ![r] = b.calls]
           /\ log' = [log EXCEPT ![r] = b.log]
    /\ tok' = [tok EXCEPT ![r] = t]
    /\ ts' = [ts EXCEPT ![r] = now]
    /\ UNCHANGED <<now, fetched, lat, verVars, provVars, limVars, repVars, bootVars,
                   confVars, cacheVars>>

\* The score fetch of request r returns and the handler runs to its end.
Finish(r) ==
    /\ pc[r] = "fetch"
    /\ \E api \in ApiAnswers :
          LET f == FinishStep(Process, metrics, decoded[r], api, ts[r], r, now)
          IN  /\ metrics' = f.metrics
              /\ lat' = [lat EXCEPT ![r] = f.latency_ms]
              /\ resp' = [resp EXCEPT ![r] = f.resp]
              /\ fetched' = [fetched EXCEPT ![r] =
                                 backend_answer(settings.score_provider_type,
                                                decoded[r].sub, api)]
              /\ log' = [log EXCEPT ![r] = @ \o f.log]
    /\ pc' = [pc EXCEPT ![r] = "done"]
    /\ calls' = [calls EXCEPT ![r] = Append(@, "get_score")]
    /\ UNCHANGED <<now, rl_state, replay_cache, tok, decoded, ts,
                   verVars, provVars, limVars, repVars, bootVars,
                   confVars, cacheVars>>

\* The wall clock advances by one second.
Tick ==
    /\ now < StartTime + MaxAhead
    /\ now' = now + 1
    /\ UNCHANGED <<rl_state, replay_cache, metrics, pc, tok, decoded, ts,
                   resp, calls, fetched, log, lat, verVars, provVars, limVars,
                   repVars, bootVars, confVars, cacheVars>>

\* The wall clock is set back by one second: time.time() is not monotonic.
TickBack ==
    /\ now > StartTime
    /\ now' = now - 1
    /\ UNCHANGED <<rl_state, replay_cache, metrics, pc, tok, decoded, ts,
                   resp, calls, fetched, log, lat, verVars, provVars, limVars,
                   repVars, bootVars, confVars, cacheVars>>

Next ==
    \/ \E r \in Requests, t \in PipelineTokens : Begin(r, t)
    \/ \E r \in Requests : Finish(r)
    \/ Tick
    \/ TickBack

Spec == Init /\ [][Next]_vars

----------------------------------------------------------------------------
(* The verifier alone: validate_token applied to one credential, drawn     *)
(* from the product of the fields it reads, at one clock reading, under    *)
(* one configured algorithm of the allow-list.                             *)

Algorithms == {"RS256", "ES256", "HS256", "none"}

ClaimValues == {NoClaim, "", "u1"}

VerTokens ==
    {Credential(raw, alg, sig, exp, nbf, sub, jti, None) :
        raw \in {"empty", "garbage", "jwt"}, alg \in Algorithms,
        sig \in {"good", "bad"},
        exp \in {None, {FarExp}} \cup
                {{StartTime + d - jwt_clock_drift_seconds} : d \in -1 .. MaxTick},
        nbf \in {None, {StartTime - 1}} \cup
                {{StartTime + d + jwt_clock_drift_seconds} : d \in 0 .. MaxTick + 1},
        sub \in ClaimValues, jti \in ClaimValues}
    \cup {WithClaim(Credential("jwt", alg, sig, exp, nbf, "u1", jti, None), c[1], c[2]) :
             alg \in {"RS256", "HS256"}, sig \in {"good", "bad"},
             exp \in {None, {FarExp}, {StartTime - jwt_clock_drift_seconds},
                      {StartTime - 1 - jwt_clock_drift_seconds}},
             nbf \in {None, {StartTime + 1 + jwt_clock_drift_seconds}},
             jti \in {NoClaim, "u1"},
             c \in {<<"iat", {StartTime - 1}>>, <<"iat", {StartTime + 1}>>,
                    <<"iat", {StartTime + MaxTick + 1}>>,
                    <<"aud", {"api"}>>, <<"aud", {""}>>,
                    <<"mistyped", {"exp"}>>, <<"mistyped", {"nbf"}>>,
                    <<"mistyped", {"iat"}>>, <<"mistyped", {"sub"}>>,
                    <<"mistyped", {"jti"}>>}}

VerInit ==
    /\ now = StartTime
    /\ rl_state = Constructed.rl
    /\ replay_cache = Constructed.cache
    /\ metrics = Constructed.metrics
    /\ pc = [r \in Requests |-> "idle"]
    /\ tok = [r \in Requests |-> tokEmpty]
    /\ decoded = [r \in Requests |-> VError("-")]
    /\ ts = [r \in Requests |-> 0]
    /\ resp = [r \in Requests |-> NoResp]
    /\ calls = [r \in Requests |-> <<>>]
    /\ fetched = [r \in Requests |-> None]
    /\ log = [r \in Requests |-> <<>>]
    /\ lat = [r \in Requests |-> None]
    /\ ProvIdle /\ LimIdle /\ RepIdle /\ Serving /\ ConfIdle /\ CacheIdle
    /\ vTok \in VerTokens
    /\ vNow \in StartTime .. StartTime + MaxTick
    /\ vAlg \in {"RS256", "ES256"}
    /\ vOut = VError("-")

\* jwt_validator.validate_token(vTok) is called at clock reading vNow.
Verify ==
    /\ vOut = VError("-")
    /\ vOut' = validate_token(vTok, vNow, vAlg, jwt_clock_drift_seconds)
    /\ UNCHANGED <<now, rl_state, replay_cache, metrics, pc, tok, decoded, ts,
                   resp, calls, fetched, log, lat, vTok, vNow, vAlg, provVars,
                   limVars, repVars, bootVars, confVars, cacheVars>>

VerNext == Verify

SpecVerify == VerInit /\ [][VerNext]_vars

----------------------------------------------------------------------------
(* The score provider alone: get_score applied once, under one configured  *)
(* provider type, to one content of the backends.                          *)

\* The pipeline as constructed, with no request.
PipeIdle ==
    /\ now = StartTime
    /\ rl_state = Constructed.rl
    /\ replay_cache = Constructed.cache
    /\ metrics = Constructed.metrics
    /\ pc = [r \in Requests |-> "idle"]
    /\ tok = [r \in Requests |-> tokEmpty]
    /\ decoded = [r \in Requests |-> VError("-")]
    /\ ts = [r \in Requests |-> 0]
    /\ resp = [r \in Requests |-> NoResp]
    /\ calls = [r \in Requests |-> <<>>]
    /\ fetched = [r \in Requests |-> None]
    /\ log = [r \in Requests |-> <<>>]
    /\ lat = [r \in Requests |-> None]

ProvBackends ==
    {Backend(db, cache, write, api) :
        db \in BackendReplies,
        cache \in {Reply("none", 0), Reply("raise", 0), Reply("int", ALLOW_THRESHOLD),
                   Reply("int", 101)},
        write \in {"ok", "raise"},
        api \in {Reply("none", 0), Reply("raise", 0), Reply("int", MONITOR_THRESHOLD),
                 Reply("int", -1), Reply("str", 0)}}

ProvInit ==
    /\ PipeIdle /\ VerIdle /\ LimIdle /\ RepIdle /\ Serving /\ ConfIdle /\ CacheIdle
    \* The values SCORE_PROVIDER_TYPE is set to: the three the provider
    \* tests for, and the three names direct, cached, remote.
    /\ pType \in {"database", "redis", "external_api", "direct", "cached", "remote"}
    /\ pBackend \in ProvBackends
    /\ pOut = Result(Reply("-", 0), <<>>)
    /\ pWait = NotWaiting

\* score_provider.get_score(user_id) is called and runs until the first
\* backend call it awaits has returned.
Fetch ==
    /\ pOut.k = "-" /\ pWait = NotWaiting
    /\ pOut' = get_score_begin(pType, pBackend).out
    /\ pWait' = get_score_begin(pType, pBackend).wait
    /\ UNCHANGED <<now, rl_state, replay_cache, metrics, pc, tok, decoded, ts,
                   resp, calls, fetched, log, lat, pType, pBackend, verVars,
                   limVars, repVars, bootVars, confVars, cacheVars>>

\* The awaited score_repo.get_score returns to _get_from_redis.
FetchRecord ==
    /\ pWait.stage = "get_score"
    /\ pOut' = redis_record(pBackend, pOut.calls).out
    /\ pWait' = redis_record(pBackend, pOut.calls).wait
    /\ UNCHANGED <<now, rl_state, replay_cache, metrics, pc, tok, decoded, ts,
                   resp, calls, fetched, log, lat, pType, pBackend, verVars,
                   limVars, repVars, bootVars, confVars, cacheVars>>

\* The awaited score_repo.cache_score returns to _get_from_redis.
FetchWrite ==
    /\ pWait.stage = "cache_score"
    /\ pOut' = redis_write(pBackend, pOut.calls, pWait.score).out
    /\ pWait' = redis_write(pBackend, pOut.calls, pWait.score).wait
    /\ UNCHANGED <<now, rl_state, replay_cache, metrics, pc, tok, decoded, ts,
                   resp, calls, fetched, log, lat, pType, pBackend, verVars,
                   limVars, repVars, bootVars, confVars, cacheVars>>

\* While get_score is suspended the event loop runs other coroutines and
\* the backends go on: the record of the principal changes, the cache
\* starts or stops taking writes.
BackendChanges ==
    /\ pWait # NotWaiting
    /\ \E db \in BackendReplies, write \in {"ok", "raise"} :
          /\ <<db, write>> # <<pBackend.db, pBackend.write>>
          /\ pBackend' = [pBackend EXCEPT !.db = db, !.write = write]
    /\ UNCHANGED <<now, rl_state, replay_cache, metrics, pc, tok, decoded, ts,
                   resp, calls, fetched, log, lat, pType, pOut, pWait, verVars,
                   limVars, repVars, bootVars, confVars, cacheVars>>

ProvNext == Fetch \/ FetchRecord \/ FetchWrite \/ BackendChanges

SpecProvider == ProvInit /\ [][ProvNext]_vars

----------------------------------------------------------------------------
(* The rate limiter alone: is_allowed called at the readings of a clock   *)
(* that advances and, being the wall clock time.time(), can be set back.   *)

LimTimes == (StartTime - MaxBack) .. (StartTime + MaxTick)

\* One call of is_allowed at clock reading t on the run L = [state, adm,
\* total]: adm counts the admitted calls per clock reading.
LimStep(L, t) ==
    LET r == is_allowed(L.state, t)
    IN  [state |-> r.state, allowed |-> r.allowed,
         adm |-> IF r.allowed THEN [L.adm EXCEPT ![t] = @ + 1] ELSE L.adm,
         total |-> L.total + 1]

\* The run after n more calls at StartTime, made in two halves to keep the
\* evaluation shallow.
RECURSIVE LimAfterBurst(_, _)
LimAfterBurst(n, L) ==
    IF n = 0 THEN L
    ELSE IF n = 1 THEN LimStep(L, StartTime)
    ELSE LET L1 == LimAfterBurst(n \div 2, L)
         IN  IF L1.total > 0 THEN LimAfterBurst(n - (n \div 2), L1) ELSE L

LimInit ==
    /\ PipeIdle /\ VerIdle /\ ProvIdle /\ RepIdle /\ Serving /\ ConfIdle /\ CacheIdle
    /\ lNow = StartTime
    /\ \E n \in {0, BurstLen, LimBurst} :
          LET L == LimAfterBurst(n, [state |-> <<>>, allowed |-> TRUE,
                                     adm |-> [t \in LimTimes |-> 0], total |-> 0])
          IN  /\ lState = L.state
              /\ lAdm = L.adm
              /\ lCalls = [total |-> L.total, run |-> 0]
    /\ lOut = [called |-> FALSE, allowed |-> TRUE, regression |-> FALSE]
    /\ lRegressed = FALSE

\* rate_limiter.is_allowed() is called.
Admit ==
    /\ lCalls.run < LimCalls
    /\ LET L == LimStep([state |-> lState, adm |-> lAdm, total |-> lCalls.total], lNow)
       IN  /\ lState' = L.state
           /\ lAdm' = L.adm
           /\ lCalls' = [total |-> L.total, run |-> lCalls.run + 1]
           /\ lOut' = [called |-> TRUE, allowed |-> L.allowed,
                       regression |-> /\ "global" \in DOMAIN lState
                                      /\ lNow < lState["global"].last_update]
    /\ UNCHANGED <<now, rl_state, replay_cache, metrics, pc, tok, decoded, ts,
                   resp, calls, fetched, log, lat, lNow, lRegressed, verVars,
                   provVars, repVars, bootVars, confVars, cacheVars>>

\* The clock advances by one second.
ClockForward ==
    /\ lNow < StartTime + MaxTick
    /\ lNow' = lNow + 1
    /\ UNCHANGED <<now, rl_state, replay_cache, metrics, pc, tok, decoded, ts,
                   resp, calls, fetched, log, lat, lState, lOut, lAdm, lCalls,
                   lRegressed, verVars, provVars, repVars, bootVars,
                   confVars, cacheVars>>

\* The clock is set back by one second.
ClockBack ==
    /\ lNow > StartTime - MaxBack
    /\ lNow' = lNow - 1
    /\ lRegressed' = TRUE
    /\ UNCHANGED <<now, rl_state, replay_cache, metrics, pc, tok, decoded, ts,
                   resp, calls, fetched, log, lat, lState, lOut, lAdm, lCalls,
                   verVars, provVars, repVars, bootVars, confVars, cacheVars>>

LimNext == Admit \/ ClockForward \/ ClockBack

SpecLimiter == LimInit /\ [][LimNext]_vars

----------------------------------------------------------------------------
(* The replay cache alone: is_replayed and record called on one            *)
(* ReplayCache instance at the readings of an advancing clock, and the     *)
(* instance replaced by a new one as a restart of the service does.        *)

\* CleanupEvery - 2 further jtis: with j1 and j2 they fill the cache to the
\* size at which is_replayed cleans up.
FillerJtis ==
    {"f01", "f02", "f03", "f04", "f05", "f06", "f07", "f08", "f09", "f10", "f11",
     "f12", "f13", "f14", "f15", "f16", "f17", "f18", "f19", "f20", "f21", "f22",
     "f23", "f24", "f25", "f26", "f27", "f28", "f29", "f30", "f31", "f32", "f33",
     "f34", "f35", "f36", "f37", "f38", "f39", "f40", "f41", "f42", "f43", "f44",
     "f45", "f46", "f47", "f48", "f49", "f50", "f51", "f52", "f53", "f54", "f55",
     "f56", "f57", "f58", "f59", "f60", "f61", "f62", "f63", "f64", "f65", "f66",
     "f67", "f68", "f69", "f70", "f71", "f72", "f73", "f74", "f75", "f76", "f77",
     "f78", "f79", "f80", "f81", "f82", "f83", "f84", "f85", "f86", "f87", "f88",
     "f89", "f90", "f91", "f92", "f93", "f94", "f95", "f96", "f97", "f98"}

ReplayJtis == {"j1", "j2", "", NoClaim}

\* The exp argument of record: None, or one of the two first clock readings.
ReplayExps == {None, {StartTime}, {StartTime + 1}}

RepInit ==
    /\ PipeIdle /\ VerIdle /\ ProvIdle /\ LimIdle /\ Serving /\ ConfIdle /\ CacheIdle
    /\ cNow = StartTime
    \* The empty cache, or the cache after record(jti) was called for every
    \* filler jti, without an exp, as the handler calls it.
    /\ cCache \in {EmptyCache,
                   [seen |-> FillerJtis, jti_timestamps |-> EmptyCache.jti_timestamps]}
    /\ cOut = [op |-> "-", jti |-> "", result |-> FALSE]
    \* REPLAY_CACHE_MAX_SIZE: a small value and the default.
    /\ cMax \in {CleanupEvery - 1, replay_cache_max_size}
    /\ cBefore = {}

\* replay_cache.is_replayed(j) is called.
CheckReplay(j) ==
    /\ LET r == is_replayed(cCache, j, cNow)
       IN  /\ cCache' = r.cache
           /\ cOut' = [op |-> "is_replayed", jti |-> j, result |-> r.result]
    /\ UNCHANGED <<now, rl_state, replay_cache, metrics, pc, tok, decoded, ts,
                   resp, calls, fetched, log, lat, cNow, cMax, cBefore, verVars,
                   provVars, limVars, bootVars, confVars, cacheVars>>

\* replay_cache.record(j, e) is called.
Record(j, e) ==
    /\ cCache' = record(cCache, j, e)
    /\ cOut' = [op |-> "record", jti |-> j, result |-> FALSE]
    /\ UNCHANGED <<now, rl_state, replay_cache, metrics, pc, tok, decoded, ts,
                   resp, calls, fetched, log, lat, cNow, cMax, cBefore, verVars,
                   provVars, limVars, bootVars, confVars, cacheVars>>

\* The clock advances by one second.
ReplayTick ==
    /\ cNow < StartTime + MaxTick
    /\ cNow' = cNow + 1
    /\ UNCHANGED <<now, rl_state, replay_cache, metrics, pc, tok, decoded, ts,
                   resp, calls, fetched, log, lat, cCache, cOut, cMax, cBefore,
                   verVars, provVars, limVars, bootVars, confVars, cacheVars>>

\* The service restarts: lifespan builds a new ReplayCache().  cBefore
\* keeps the jtis the replaced instance held without an exp.
Restart ==
    /\ cCache' = EmptyCache
    /\ cBefore' = cBefore \cup (cCache.seen \ DOMAIN cCache.jti_timestamps)
    /\ cOut' = [op |-> "restart", jti |-> "", result |-> FALSE]
    /\ UNCHANGED <<now, rl_state, replay_cache, metrics, pc, tok, decoded, ts,
                   resp, calls, fetched, log, lat, cNow, cMax, verVars,
                   provVars, limVars, bootVars, confVars, cacheVars>>

RepNext ==
    \/ \E j \in ReplayJtis : CheckReplay(j)
    \/ \E j \in ReplayJtis, e \in ReplayExps : Record(j, e)
    \/ ReplayTick
    \/ Restart

SpecReplay == RepInit /\ [][RepNext]_vars

----------------------------------------------------------------------------
(* Startup: lifespan constructs the components, among them the verifier    *)
(* with its public key, before the server routes a request to the handler. *)

\* A variant that answers a failed read with an empty key.
load_public_key_lenient(file) == IF file = "readable" THEN "pem" ELSE ""

\* JWTValidator._load_public_key: the content of the file, or RuntimeError.
load_public_key(file) == IF file = "readable" THEN "pem" ELSE "RuntimeError"

StartInit ==
    /\ PipeIdle /\ VerIdle /\ ProvIdle /\ LimIdle /\ RepIdle /\ ConfIdle /\ CacheIdle
    /\ phase = "starting"
    /\ key_file \in {"readable", "unreadable"}
    /\ Configured

\* lifespan runs up to its yield: an exception of a constructor fails the
\* startup and the server exits.
Startup ==
    /\ phase = "starting"
    /\ phase' = IF load_public_key(key_file) = "RuntimeError" THEN "failed"
                ELSE "serving"
    /\ UNCHANGED <<now, rl_state, replay_cache, metrics, pc, tok, decoded, ts,
                   resp, calls, fetched, log, lat, key_file, settings, utc_offset,
                   verVars, provVars, limVars, repVars, confVars, cacheVars>>

StartNext == Startup \/ Next

SpecStartup == StartInit /\ [][StartNext]_vars

----------------------------------------------------------------------------
(* The rate limiter as lifespan builds it from the environment, called at  *)
(* the readings of an advancing clock.                                      *)

ConfInit ==
    /\ PipeIdle /\ VerIdle /\ ProvIdle /\ LimIdle /\ RepIdle /\ Serving /\ CacheIdle
    /\ gEnv \in {Env(r, b) : r \in {None, {60}}, b \in {None, {1}, {150}}}
    /\ gLimiter = None
    /\ gNow = StartTime
    /\ gAdm = 0
    /\ gCalls = 0

\* lifespan builds the rate limiter from the settings.
Construct ==
    /\ gLimiter = None
    /\ gLimiter' = {build_rate_limiter(Settings(gEnv))}
    /\ UNCHANGED <<now, rl_state, replay_cache, metrics, pc, tok, decoded, ts,
                   resp, calls, fetched, log, lat, gEnv, gNow, gAdm, gCalls,
                   verVars, provVars, limVars, repVars, bootVars, cacheVars>>

\* rate_limiter.is_allowed() is called; gAdm counts the admitted calls.
ConfAdmit ==
    /\ gCalls < LimCalls
    /\ \E self \in gLimiter :
          LET r == is_allowed_of(self, gNow)
          IN  /\ gLimiter' = {r.self}
              /\ gAdm' = IF r.allowed THEN gAdm + 1 ELSE gAdm
    /\ gCalls' = gCalls + 1
    /\ UNCHANGED <<now, rl_state, replay_cache, metrics, pc, tok, decoded, ts,
                   resp, calls, fetched, log, lat, gEnv, gNow, verVars,
                   provVars, limVars, repVars, bootVars, cacheVars>>

\* The clock advances by one second.
ConfTick ==
    /\ gNow < StartTime + MaxTick
    /\ gNow' = gNow + 1
    /\ UNCHANGED <<now, rl_state, replay_cache, metrics, pc, tok, decoded, ts,
                   resp, calls, fetched, log, lat, gEnv, gLimiter, gAdm, gCalls,
                   verVars, provVars, limVars, repVars, bootVars, cacheVars>>

ConfNext == Construct \/ ConfAdmit \/ ConfTick

SpecConfig == ConfInit /\ [][ConfNext]_vars

----------------------------------------------------------------------------
(* Cached score retrieval: get_score with provider type "redis" over a     *)
(* ScoreRepository, called by concurrent requests for one principal.  Each *)
(* await of a repository method is a suspension of the calling coroutine;  *)
(* the redis or database operation behind it takes effect in one step.     *)

\* The repositories behind the provider: the ScoreRepository ("mock": its
\* get_score is the function of the user id, here of med_user), and
\* instances with the redis-backed methods: as the class builds them
\* ("unset": neither redis nor db is assigned, so get_score raises too), and
\* with a redis attribute that is None ("absent") or a client whose server
\* answers ("up") or fails ("down").
CacheInit ==
    /\ PipeIdle /\ VerIdle /\ ProvIdle /\ LimIdle /\ RepIdle /\ Serving /\ ConfIdle
    /\ kRedis \in {None} \cup {{CacheEntry(v, score_cache_ttl_seconds)} : v \in {0, ALLOW_THRESHOLD}}
    /\ kUp \in {"mock", "unset", "absent", "up", "down"}
    /\ kDb \in {Reply("none", 0), Reply("raise", 0), Reply("int", 0),
                Reply("int", MONITOR_THRESHOLD)}
    /\ kUp = "mock" =>
          /\ kRedis = None
          /\ kDb = Reply("int", MockScoreRepository_get_score("med_user"))
    /\ kUp = "unset" => (kRedis = None /\ kDb = Reply("raise", 0))
    /\ kPc = [c \in Callers |-> "idle"]
    /\ kLocal = [c \in Callers |-> None]
    /\ kOut = [c \in Callers |-> None]
    /\ kCalls = [c \in Callers |-> <<>>]

\* get_score(user_id) is called and _get_from_redis awaits
\* score_repo.get_cached_score: a cached score is returned, an exception
\* makes get_score return 0, otherwise the coroutine goes on to await
\* score_repo.get_score.
Lookup(c) ==
    /\ kPc[c] = "idle"
    /\ LET cached_score == score_repo_get_cached_score(kUp, kRedis)
       IN  /\ kCalls' = [kCalls EXCEPT
                            ![c] = <<RepoCall("get_cached_score", <<>>, cached_score)>>]
           /\ IF cached_score.raised
              THEN kPc' = [kPc EXCEPT ![c] = "done"] /\ kOut' = [kOut EXCEPT ![c] = {0}]
              ELSE IF cached_score.value # None
              THEN /\ kPc' = [kPc EXCEPT ![c] = "done"]
                   /\ kOut' = [kOut EXCEPT ![c] = cached_score.value]
              ELSE kPc' = [kPc EXCEPT ![c] = "db"] /\ kOut' = kOut
    /\ UNCHANGED <<now, rl_state, replay_cache, metrics, pc, tok, decoded, ts,
                   resp, calls, fetched, log, lat, kRedis, kUp, kDb, kLocal,
                   verVars, provVars, limVars, repVars, bootVars, confVars>>

\* score_repo.get_score returns to caller c: without a record
\* _get_from_redis returns 0, an exception makes get_score return 0, a
\* score goes on to score_repo.cache_score.
DbReturn(c) ==
    /\ kPc[c] = "db"
    /\ kCalls' = [kCalls EXCEPT ![c] = Append(@, RepoCall("get_score", <<>>, kDb))]
    /\ IF kDb.k = "int"
       THEN /\ kPc' = [kPc EXCEPT ![c] = "write"]
            /\ kLocal' = [kLocal EXCEPT ![c] = {kDb.v}]
            /\ kOut' = kOut
       ELSE /\ kPc' = [kPc EXCEPT ![c] = "done"]
            /\ kOut' = [kOut EXCEPT ![c] = {0}]
            /\ kLocal' = kLocal
    /\ UNCHANGED <<now, rl_state, replay_cache, metrics, pc, tok, decoded, ts,
                   resp, calls, fetched, log, lat, kRedis, kUp, kDb,
                   verVars, provVars, limVars, repVars, bootVars, confVars>>

\* score_repo.cache_score(user_id, score, ttl) returns to caller c and
\* _get_from_redis returns the score; an exception of cache_score would
\* make get_score return 0.
CacheWrite(c) ==
    /\ kPc[c] = "write"
    /\ \E score \in kLocal[c] :
          LET w == score_repo_cache_score(kUp, kRedis, score, score_cache_ttl_seconds)
          IN  /\ kRedis' = w.entry
              /\ kCalls' = [kCalls EXCEPT
                               ![c] = Append(@, RepoCall("cache_score",
                                                         <<score, score_cache_ttl_seconds>>,
                                                         w))]
              /\ kOut' = [kOut EXCEPT ![c] = IF w.raised THEN {0} ELSE {score}]
    /\ kPc' = [kPc EXCEPT ![c] = "done"]
    /\ UNCHANGED <<now, rl_state, replay_cache, metrics, pc, tok, decoded, ts,
                   resp, calls, fetched, log, lat, kUp, kDb, kLocal,
                   verVars, provVars, limVars, repVars, bootVars, confVars>>

\* The connection to redis fails, or comes back.
RedisFlips ==
    /\ kUp \in {"up", "down"}
    /\ kUp' = IF kUp = "up" THEN "down" ELSE "up"
    /\ UNCHANGED <<now, rl_state, replay_cache, metrics, pc, tok, decoded, ts,
                   resp, calls, fetched, log, lat, kRedis, kDb, kPc, kLocal, kOut,
                   kCalls, verVars, provVars, limVars, repVars, bootVars, confVars>>

\* The time to live of the cached entry runs out.
Expire ==
    /\ kRedis # None
    /\ kRedis' = None
    /\ UNCHANGED <<now, rl_state, replay_cache, metrics, pc, tok, decoded, ts,
                   resp, calls, fetched, log, lat, kUp, kDb, kPc, kLocal, kOut,
                   kCalls, verVars, provVars, limVars, repVars, bootVars, confVars>>

CacheNext ==
    \/ \E c \in Callers : Lookup(c)
    \/ \E c \in Callers : DbReturn(c)
    \/ \E c \in Callers : CacheWrite(c)
    \/ RedisFlips
    \/ Expire

SpecCache == CacheInit /\ [][CacheNext]_vars

----------------------------------------------------------------------------
(* Properties of the pipeline *)

Started(r) == pc[r] # "idle"
Done(r) == pc[r] = "done"

\* validate_token returned the payload of the credential (and not one of
\* its {"error": kind} dictionaries): the credential passed verification.
IsPayload(dec) == dec.sub # NoClaim

\* Request r got past the rate limiter and the verifier.
Verified(r) == Started(r) /\ IsPayload(decoded[r])

\* Request r got past the replay check: its jti was recorded.
PassedReplay(r) == Started(r) /\ Len(calls[r]) >= 4 /\ calls[r][4] = "record"

\* Request r called the score backend.
Fetched(r) == \E i \in 1..Len(calls[r]) : calls[r][i] = "get_score"

ShortCircuitReasons ==
    {"RATE_LIMIT_EXCEEDED", "EXPIRED_TOKEN", "NOT_YET_VALID",
     "INVALID_SIGNATURE", "MALFORMED_TOKEN", "REPLAY_DETECTED"}

VerificationReasons ==
    {"EXPIRED_TOKEN", "NOT_YET_VALID", "INVALID_SIGNATURE", "MALFORMED_TOKEN"}

\* C1: validate answers every request with a well-formed response: a
\* finished request holds a decision of the enumeration, its own request_id
\* and its timestamp (no exception reached the caller, also when a step of
\* the pipeline raised), and a request in flight can always take its
\* remaining step.
C1_AlwaysWellFormedResponse ==
    \A r \in Requests :
        /\ Done(r) =>
              /\ resp[r].decision \in Decision
              /\ resp[r].request_id = r
              /\ resp[r].timestamp = ts[r]
              /\ resp[r].timestamp >= StartTime
        /\ pc[r] = "fetch" => ENABLED Finish(r)

\* A request whose score step raised (the repository answered with a value
\* that is no number) and that was answered DENY / INTERNAL_ERROR.
C1_Witness ==
    \E r \in Requests :
        /\ Done(r)
        /\ fetched[r] = {Reply("str", 0)}
        /\ resp[r].decision = "DENY"
        /\ resp[r].reason = {"INTERNAL_ERROR"}

\* C2: in every response the decision is DENY exactly when the reason is
\* not null, and a reason is one DenyReason.
C2_DenyIffReason ==
    \A r \in Requests :
        Done(r) =>
            /\ (resp[r].decision = "DENY") <=> (resp[r].reason # None)
            /\ resp[r].reason \subseteq DenyReason
            /\ Cardinality(resp[r].reason) <= 1

\* A MONITOR response with reason null beside a DENY response with a reason.
C2_Witness ==
    \E r1, r2 \in Requests :
        /\ Done(r1) /\ resp[r1].decision = "MONITOR" /\ resp[r1].reason = None
        /\ Done(r2) /\ resp[r2].decision = "DENY" /\ resp[r2].reason = {"LOW_SCORE"}

\* The requests that got past rate limiting and verification with jti j.
VerifiedWith(j) == {r \in Requests : Verified(r) /\ decoded[r].jti = j}

\* C3 as stated: among the requests that carry the same non-empty jti and
\* got past rate limiting and verification, under every interleaving,
\* exactly one got past the replay check and every other one was answered
\* DENY / REPLAY_DETECTED.
C3_OneRequestPerJti ==
    \A j \in {tok[r].jti : r \in Requests} :
        (~Falsy(j) /\ VerifiedWith(j) # {}) =>
            /\ Cardinality({r \in VerifiedWith(j) : PassedReplay(r)}) = 1
            /\ \A r \in VerifiedWith(j) :
                  ~PassedReplay(r) =>
                      /\ Done(r)
                      /\ resp[r].decision = "DENY"
                      /\ resp[r].reason = {"REPLAY_DETECTED"}

\* The integer score the provider handed to the decision engine for request
\* r (no record and a failing repository count as 0), if there is one.
ProviderScore(r) ==
    {x.v : x \in {y \in fetched[r] : y.k = "int"}}
        \cup {0 : x \in {y \in fetched[r] : y.k \in {"none", "raise"}}}

\* A step of request r raised: the verifier on an exp or nbf that is no
\* number, the look-up of the reason on an "error" claim that is not
\* hashable, the decision on a score that is no number, or the hash of a
\* user id that cannot be encoded.
Raised(r) ==
    \/ decoded[r].error \in {"TypeError", Unhashable}
    \/ \E x \in fetched[r] : x.k \in {"str", "float"}
    \/ fetched[r] # None /\ telemetry_emit_enabled /\ hash_user_id(decoded[r].sub).raised

\* C4: for every integer score s the provider handed to the decision
\* engine, the engine returns ALLOW iff s >= 70, MONITOR iff 50 <= s < 70,
\* DENY iff s < 50, with s unchanged; the request is answered with that
\* verdict and score s, unless the handler raised after the engine returned
\* (then DENY / INTERNAL_ERROR, see C13).
C4_ThresholdDecision ==
    \A r \in Requests :
        \A s \in ProviderScore(r) :
            /\ Done(r)
            /\ (decide(s) = "ALLOW") <=> (s >= 70)
            /\ (decide(s) = "MONITOR") <=> (50 <= s /\ s < 70)
            /\ (decide(s) = "DENY") <=> (s < 50)
            /\ IF Raised(r)
               THEN resp[r] = ValidateResponse("DENY", {"INTERNAL_ERROR"}, r, ts[r], None)
               ELSE /\ resp[r].score = {s}
                    /\ resp[r].decision = decide(s)

\* Scores 70 and 69 have both been decided: ALLOW and MONITOR.
C4_Witness ==
    \E r1, r2 \in Requests :
        /\ ProviderScore(r1) = {70} /\ resp[r1].decision = "ALLOW"
        /\ ProviderScore(r2) = {69} /\ resp[r2].decision = "MONITOR"

\* The response validate gives when it runs from the current state on
\* credential t and the external API answers `api`.
Outcome(t, api) ==
    LET b == BeginStep(Here, t, now, 0)
    IN  IF b.pc = "done" THEN b.resp
        ELSE FinishStep(Process, b.metrics, b.decoded, api, now, 0, now).resp

\* Credential t passes verification at the current clock reading.
VerifiedNow(t) ==
    IsPayload(validate_token(t, now, jwt_algorithm, jwt_clock_drift_seconds))

\* Credential t passes the replay check in the current state.
FreshNow(t) == ~Falsy(t.jti) /\ t.jti \notin replay_cache.seen

\* The pairs of distinct credentials that name the same principal.
SameSubPairs ==
    {p \in PipelineTokens \X PipelineTokens : p[1].sub = p[2].sub /\ p[1] # p[2]}

\* C5 as stated, for credentials that both pass the replay check: from one
\* component state and one answer of the score backend, two verified
\* credentials with the same sub get the same verdict and score, whatever
\* else differs in their payloads.
C5_VerdictDependsOnlyOnSub ==
    \A p \in SameSubPairs :
        (/\ VerifiedNow(p[1]) /\ VerifiedNow(p[2])
         /\ FreshNow(p[1]) /\ FreshNow(p[2])) =>
            \A api \in ApiAnswers :
                /\ Outcome(p[1], api).decision = Outcome(p[2], api).decision
                /\ Outcome(p[1], api).score = Outcome(p[2], api).score

\* Credential t was presented by a request that got past rate limiting and
\* verification.
PresentedBefore(t) == \E q \in Requests : Verified(q) /\ tok[q] = t

\* Request r arrives in this step.
Arrives(r) == pc[r] = "idle" /\ pc'[r] # "idle"

\* C6 as stated, for later requests that themselves get past rate limiting
\* and verification: once a credential got past rate limiting and
\* verification, every such later request presenting it is answered
\* DENY / REPLAY_DETECTED.
C6_LaterPresentationIsReplay ==
    [][\A r \in Requests :
          (Arrives(r) /\ PresentedBefore(tok'[r]) /\ IsPayload(decoded'[r])) =>
              /\ pc'[r] = "done"
              /\ resp'[r].decision = "DENY"
              /\ resp'[r].reason = {"REPLAY_DETECTED"}]_vars

\* Credential t is correctly signed under the configured algorithm, inside
\* its validity window at clock reading t0, and carries sub and jti.
Genuine(t, t0) ==
    /\ t.raw = "jwt" /\ t.alg = jwt_algorithm /\ t.sig = "good"
    /\ "exp" \notin t.mistyped
    /\ \E e \in t.exp : t0 <= e + jwt_clock_drift_seconds
    /\ \A n \in t.nbf : t0 >= n - jwt_clock_drift_seconds
    /\ t.sub # NoClaim /\ t.jti # NoClaim

\* C7: the replay set changes only in the step of a request that got past
\* the rate limiter and carries a genuine credential, and then by that
\* credential's jti; a request refused by the rate limiter or the verifier
\* leaves the replay cache as it was.
C7_ReplaySetOnlyFromVerified ==
    [][/\ (replay_cache'.seen # replay_cache.seen) =>
             \E r \in Requests :
                 /\ Arrives(r) /\ pc'[r] = "fetch"
                 /\ Genuine(tok'[r], now)
                 /\ calls'[r] = <<"is_allowed", "validate_token", "is_replayed", "record">>
                 /\ replay_cache'.seen = replay_cache.seen \cup {tok'[r].jti}
       /\ \A r \in Requests :
             (Arrives(r) /\ resp'[r].reason \cap
                  ({"RATE_LIMIT_EXCEEDED"} \cup VerificationReasons) # {}) =>
                 replay_cache' = replay_cache]_vars

\* A credential with a bad signature and jti j1 was refused at a time the
\* replay set held another jti, and j1 is not in the set.
C7_Witness ==
    \E q, r \in Requests :
        /\ PassedReplay(q)
        /\ Done(r) /\ tok[r] = tokBadSig
        /\ resp[r].reason = {"INVALID_SIGNATURE"}
        /\ replay_cache.seen = {decoded[q].jti}
        /\ tok[r].jti \notin replay_cache.seen

\* C8: a request calls the score backend only as the fifth call, after the
\* rate limiter, the verifier, the replay check and the recording, in that
\* order; a request answered with a rate-limit, verification or replay
\* reason made no such call, and of the requests that carry one jti at most
\* one reaches the backend.
C8_ScoreOnlyAfterChecks ==
    /\ \A r \in Requests :
          /\ Fetched(r) =>
                calls[r] = <<"is_allowed", "validate_token", "is_replayed",
                             "record", "get_score">>
          /\ (resp[r].reason \cap ShortCircuitReasons # {}) => ~Fetched(r)
          /\ fetched[r] # None => Fetched(r)
    /\ \A r1, r2 \in Requests :
          (Fetched(r1) /\ Fetched(r2) /\ tok[r1].jti = tok[r2].jti) => r1 = r2

\* A replay was answered after three calls while the first presentation of
\* the jti went on to the score backend.
C8_Witness ==
    \E r1, r2 \in Requests :
        /\ Fetched(r1)
        /\ tok[r2].jti = tok[r1].jti
        /\ Done(r2) /\ resp[r2].reason = {"REPLAY_DETECTED"}
        /\ calls[r2] = <<"is_allowed", "validate_token", "is_replayed">>

\* C9 as stated: a parsable credential whose header names an algorithm
\* other than the configured one is answered DENY / INVALID_SIGNATURE
\* (unless the rate limiter refused the request first).
C9_OtherAlgorithmIsInvalidSignature ==
    \A r \in Requests :
        (/\ Done(r) /\ tok[r].raw = "jwt" /\ tok[r].alg # jwt_algorithm
         /\ resp[r].reason # {"RATE_LIMIT_EXCEEDED"}) =>
            /\ resp[r].decision = "DENY"
            /\ resp[r].reason = {"INVALID_SIGNATURE"}

\* Credential t is correctly signed under the configured algorithm and
\* inside its validity window at clock reading t0.
SignedInWindow(t, t0) ==
    /\ t.raw = "jwt" /\ t.alg = jwt_algorithm /\ t.sig = "good"
    /\ "exp" \notin t.mistyped
    /\ \E e \in t.exp : t0 <= e + jwt_clock_drift_seconds
    /\ \A n \in t.nbf : t0 >= n - jwt_clock_drift_seconds

\* C11 as stated: a request that got past the rate limiter with a correctly
\* signed, temporally valid credential whose sub or jti is absent or the
\* empty string is answered DENY / MALFORMED_TOKEN after the verifier, with
\* no call of the replay cache or the score backend.
C11_MissingSubOrJtiIsMalformed ==
    \A r \in Requests :
        (/\ Started(r)
         /\ SignedInWindow(tok[r], ts[r])
         /\ (Falsy(tok[r].sub) \/ Falsy(tok[r].jti))
         /\ resp[r].reason # {"RATE_LIMIT_EXCEEDED"}) =>
            /\ Done(r)
            /\ resp[r].decision = "DENY"
            /\ resp[r].reason = {"MALFORMED_TOKEN"}
            /\ calls[r] = <<"is_allowed", "validate_token">>

\* The failure kinds of the verifier and the reason each is to be answered
\* with.
VerificationKinds == {"expired", "not_yet_valid", "invalid_signature", "malformed"}

KindReason(kind) ==
    CASE kind = "expired" -> "EXPIRED_TOKEN"
      [] kind = "not_yet_valid" -> "NOT_YET_VALID"
      [] kind = "invalid_signature" -> "INVALID_SIGNATURE"
      [] kind = "malformed" -> "MALFORMED_TOKEN"

\* C12: a request whose verification fails with kind k is answered at once
\* with DENY, the reason of k, score null, its request_id and timestamp, and
\* deny_count grows by one; a failed verification is answered with the
\* reason of no other kind.
C12_VerificationFailureReason ==
    [][\A r \in Requests :
          (Arrives(r) /\ ~IsPayload(decoded'[r])) =>
              /\ decoded'[r].error \in VerificationKinds =>
                    /\ pc'[r] = "done"
                    /\ resp'[r] = ValidateResponse("DENY",
                                      {KindReason(decoded'[r].error)}, r, now, None)
                    /\ metrics'.deny_count = metrics.deny_count + 1
                    /\ calls'[r] = <<"is_allowed", "validate_token">>
              /\ \A k \in VerificationKinds :
                    resp'[r].reason = {KindReason(k)} => decoded'[r].error = k]_vars

\* One request was answered NOT_YET_VALID and one EXPIRED_TOKEN, both
\* counted as denials.
C12_Witness ==
    \E r1, r2 \in Requests :
        /\ Done(r1) /\ ~IsPayload(decoded[r1]) /\ decoded[r1].error = "not_yet_valid"
        /\ resp[r1].reason = {"NOT_YET_VALID"}
        /\ Done(r2) /\ ~IsPayload(decoded[r2]) /\ decoded[r2].error = "expired"
        /\ resp[r2].reason = {"EXPIRED_TOKEN"}
        /\ metrics.deny_count >= 2

\* C13 as stated: a request one of whose steps raised is answered DENY /
\* INTERNAL_ERROR with score null, and with telemetry enabled exactly one
\* gateway.error event was written for it.
C13_InternalErrorDeniedAndReported ==
    \A r \in Requests :
        (Done(r) /\ Raised(r)) =>
            /\ resp[r] = ValidateResponse("DENY", {"INTERNAL_ERROR"}, r, ts[r], None)
            /\ telemetry_emit_enabled =>
                  log[r] = <<LogRecord("INFO", "gateway.error", r)>>

\* C14 as stated: every response carries a score in 0..100, and a backend
\* value outside 0..100 is answered with score 0.
C14_ScoreInRange ==
    \A r \in Requests :
        Done(r) =>
            /\ \A s \in resp[r].score : 0 <= s /\ s <= 100
            /\ \A x \in fetched[r] :
                  (x.k = "int" /\ (x.v < 0 \/ x.v > 100)) => resp[r].score = {0}

\* Request r reached the score step and the backend raised or had no
\* record for its principal.
BackendFailed(r) ==
    /\ Done(r) /\ fetched[r] # None
    /\ fetched[r] \subseteq {Reply("raise", 0), Reply("none", 0)}

\* get_score answers 0 when the backend raises or has no record, under
\* each provider type.
ScoreZeroOnFailure ==
    \A reply \in {Reply("raise", 0), Reply("none", 0)} :
        \A provider_type \in {"database", "redis", "external_api"} :
            LET B == Backend(reply, Reply("none", 0), "ok", reply)
            IN  /\ get_score(provider_type, B).k = "int"
                /\ get_score(provider_type, B).v = 0

\* C15 as stated: get_score answers 0 when the backend raises or has no
\* record, and a request that reached the score step in that situation is
\* answered DENY / LOW_SCORE with score 0.
C15_FailedBackendIsLowScore ==
    /\ ScoreZeroOnFailure
    /\ \A r \in Requests :
          BackendFailed(r) =>
              resp[r] = ValidateResponse("DENY", {"LOW_SCORE"}, r, ts[r], {0})

\* C15 amended: get_score answers 0 when the backend raises or has no
\* record, and a request that reached the score step in that situation is
\* answered DENY, never ALLOW or MONITOR: with LOW_SCORE and score 0, or,
\* when the handler raises after the decision (the hash of a user id that
\* cannot be encoded), with INTERNAL_ERROR and score null.
C15_FailClosedScore ==
    /\ ScoreZeroOnFailure
    /\ \A r \in Requests :
          BackendFailed(r) =>
              resp[r] = IF telemetry_emit_enabled /\ hash_user_id(decoded[r].sub).raised
                        THEN ValidateResponse("DENY", {"INTERNAL_ERROR"}, r, ts[r], None)
                        ELSE ValidateResponse("DENY", {"LOW_SCORE"}, r, ts[r], {0})

\* The backend had no record for one request, which was answered DENY /
\* LOW_SCORE with score 0, and raised for another, whose sub cannot be
\* encoded and which was answered DENY / INTERNAL_ERROR with score null.
C15_Witness ==
    \E r1, r2 \in Requests :
        /\ BackendFailed(r1) /\ fetched[r1] = {Reply("none", 0)}
        /\ resp[r1].reason = {"LOW_SCORE"} /\ resp[r1].score = {0}
        /\ BackendFailed(r2) /\ fetched[r2] = {Reply("raise", 0)}
        /\ resp[r2].reason = {"INTERNAL_ERROR"} /\ resp[r2].score = None

\* The responses given with reason x.
AnsweredWith(x) == {r \in Requests : Done(r) /\ resp[r].reason = {x}}

\* C20 as stated: rate_limit_hits counts the RATE_LIMIT_EXCEEDED responses
\* and replay_detections the REPLAY_DETECTED responses.
C20_SpecificDenyCounters ==
    /\ metrics.rate_limit_hits = Cardinality(AnsweredWith("RATE_LIMIT_EXCEEDED"))
    /\ metrics.replay_detections = Cardinality(AnsweredWith("REPLAY_DETECTED"))

\* C21 as stated: with telemetry enabled, a request answered by the rate
\* limiter, by a verification failure or by the replay check has handed
\* one event to the telemetry logger.
C21_ShortCircuitEmitsTelemetry ==
    \A r \in Requests :
        (/\ telemetry_emit_enabled
         /\ Done(r)
         /\ resp[r].reason \cap ShortCircuitReasons # {}) =>
            Len(log[r]) = 1

\* C26: a response carries a score only if its request got past the rate
\* limiter, the verifier and the replay check and fetched a score; a
\* response with one of the six short-circuit reasons or INTERNAL_ERROR has
\* score null; ALLOW, MONITOR and DENY / LOW_SCORE carry the score the
\* provider returned.
C26_ScoreOnlyWithVerdictFromScore ==
    \A r \in Requests :
        Done(r) =>
            /\ resp[r].score # None =>
                  /\ Verified(r) /\ PassedReplay(r) /\ Fetched(r)
                  /\ resp[r].score = ProviderScore(r)
            /\ resp[r].reason \cap (ShortCircuitReasons \cup {"INTERNAL_ERROR"}) # {} =>
                  resp[r].score = None
            /\ (resp[r].decision \in {"ALLOW", "MONITOR"}
                    \/ resp[r].reason = {"LOW_SCORE"}) =>
                  /\ ProviderScore(r) # {}
                  /\ resp[r].score = ProviderScore(r)

\* A request that fetched a score and was answered INTERNAL_ERROR with
\* score null, beside a MONITOR response that carries the fetched 50.
C26_Witness ==
    \E r1, r2 \in Requests :
        /\ Done(r1) /\ Fetched(r1) /\ resp[r1].reason = {"INTERNAL_ERROR"}
        /\ resp[r1].score = None
        /\ Done(r2) /\ resp[r2].decision = "MONITOR"
        /\ fetched[r2] = {Reply("int", MONITOR_THRESHOLD)}
        /\ resp[r2].score = {MONITOR_THRESHOLD}

\* C28 as stated: once a request with a measured latency above zero has
\* completed, a metrics read returns an avg_latency_ms above zero, its
\* denominator being max(total_requests, 1).
C28_LatencyCounterAccumulates ==
    /\ get_metrics(metrics).avg_latency_ms.den >= 1
    /\ (\E r \in Requests : Done(r) /\ \E l \in lat[r] : l > 0) =>
          get_metrics(metrics).avg_latency_ms.num > 0

----------------------------------------------------------------------------
(* Properties of the startup *)

\* C27: with an unreadable key file the service never serves: its startup
\* fails, and no request is ever begun.
C27_NoServiceWithoutKey ==
    key_file = "unreadable" =>
        /\ phase # "serving"
        /\ \A r \in Requests : pc[r] = "idle" /\ calls[r] = <<>>

\* The startup failed on an unreadable key file.
C27_Witness == key_file = "unreadable" /\ phase = "failed"

----------------------------------------------------------------------------
(* Properties of the verifier *)

Verdict == vOut.error # "-"

\* The credential under test is correctly signed under the configured
\* algorithm and carries sub, jti and a numeric exp.
WellSigned ==
    /\ vTok.raw = "jwt" /\ vTok.alg = vAlg /\ vTok.sig = "good"
    /\ vTok.sub # NoClaim /\ vTok.jti # NoClaim
    /\ vTok.exp # None /\ vTok.mistyped = {}

\* C10 as stated: a correctly signed credential with sub, jti and exp,
\* whatever its other claims (an iat among them), is accepted iff
\* now <= exp + clock_drift and (nbf is absent or now >= nbf - clock_drift);
\* past exp + clock_drift it is Expired, otherwise before nbf - clock_drift
\* it is NotYetValid.
C10_TemporalWindow ==
    (Verdict /\ WellSigned) =>
        \A e \in vTok.exp :
            /\ (vOut.error = "none") <=>
                   (/\ vNow <= e + jwt_clock_drift_seconds
                    /\ \A n \in vTok.nbf : vNow >= n - jwt_clock_drift_seconds)
            /\ (vOut.error = "expired") <=> (vNow > e + jwt_clock_drift_seconds)
            /\ (vOut.error = "not_yet_valid") <=>
                   (/\ vNow <= e + jwt_clock_drift_seconds
                    /\ \E n \in vTok.nbf : vNow < n - jwt_clock_drift_seconds)

----------------------------------------------------------------------------
(* Properties of the score provider *)

Answered == pOut.k # "-"

\* C16 as stated: type direct makes the single call to the record store and
\* returns the record's score, type cached consults the cache first, type
\* remote calls the external API.
C16_DirectCachedRemoteSelectBackend ==
    Answered =>
        /\ pType = "direct" =>
              /\ pOut.calls = <<"get_score">>
              /\ pBackend.db.k = "int" => pOut.v = pBackend.db.v
        /\ pType = "cached" =>
              /\ Len(pOut.calls) >= 1
              /\ pOut.calls[1] = "get_cached_score"
        /\ pType = "remote" => pOut.calls = <<"client.get">>

----------------------------------------------------------------------------
(* Properties of the rate limiter *)

\* The calls admitted at the clock readings a..b.
RECURSIVE Admitted(_, _)
Admitted(a, b) == IF a > b THEN 0 ELSE lAdm[a] + Admitted(a + 1, b)

\* C17: as long as the clock was not set back, the calls admitted at the
\* clock readings of any window a..b number at most
\* burst + rate * (b - a), with rate = requests_per_minute / 60 per second
\* (the inequality is stated in sixtieths of a token); every call beyond
\* that was refused.
C17_AdmittedWithinBurstPlusRate ==
    ~lRegressed =>
        /\ \A a \in LimTimes : \A b \in LimTimes :
              a <= b =>
                  Unit * Admitted(a, b) <=
                      max_tokens * Unit + rate_limit_requests_per_minute * (b - a)
        /\ lCalls.total >= Admitted(StartTime - MaxBack, StartTime + MaxTick)

\* 200 calls within one second: 120 admitted at the first clock reading,
\* one more a second later, the 200th refused.
C17_Witness ==
    /\ ~lRegressed
    /\ lCalls.total = 200
    /\ lNow = StartTime + 1
    /\ lAdm[StartTime] = max_tokens
    /\ lAdm[StartTime + 1] = 1
    /\ lOut.called /\ ~lOut.allowed

\* C18 as stated: the stored token count of every key lies in
\* 0..burst capacity, whatever the clock readings were.
C18_TokensWithinBounds ==
    \A key \in DOMAIN lState :
        /\ ~float_lt_int(lState[key].tokens, 0)
        /\ \/ float_lt_int(lState[key].tokens, max_tokens)
           \/ float_eq_int(lState[key].tokens, max_tokens)

\* C19 as stated: a call made at a clock reading earlier than the stored
\* last_update is admitted.
C19_FailOpenOnClockRegression ==
    (lOut.called /\ lOut.regression) => lOut.allowed

\* C29: a call of is_allowed on a key without state stores
\* (burst - 1, now) and admits; otherwise it stores last_update = now and
\* tokens refilled to min(burst, tokens + elapsed * rate), refusing without
\* consuming when that is below 1 and else admitting and consuming 1
\* (each operation in floating point, the rate being
\* requests_per_minute / 60.0).
C29_TokenBucketStep ==
    [][lCalls' # lCalls =>
          IF "global" \notin DOMAIN lState
          THEN /\ lOut'.allowed
               /\ lState' = ("global" :> [tokens |-> float_of_int(max_tokens - 1),
                                          last_update |-> lNow])
          ELSE LET elapsed == lNow - lState["global"].last_update
                   rate == float_div_60(rate_limit_requests_per_minute)
                   sum == float_add(lState["global"].tokens,
                                    float_mul_int(elapsed, rate))
                   refilled == IF float_lt_int(sum, max_tokens) THEN sum
                               ELSE float_of_int(max_tokens)
               IN  /\ lState'["global"].last_update = lNow
                   /\ lOut'.allowed <=> ~float_lt_int(refilled, 1)
                   /\ lState'["global"].tokens =
                          IF float_lt_int(refilled, 1) THEN refilled
                          ELSE float_add(refilled, float_of_int(-1))]_vars

\* A call refused one second after the bucket ran empty: the refill of that
\* second less the one token the call before consumed stays stored.
C29_Witness ==
    /\ lOut.called /\ ~lOut.allowed /\ ~lRegressed
    /\ "global" \in DOMAIN lState
    /\ lState["global"].last_update = StartTime + 1
    /\ lState["global"].tokens =
           float_add(float_div_60(rate_limit_requests_per_minute), float_of_int(-1))
    /\ lState["global"].tokens.n = rate_limit_requests_per_minute - Unit

\* C30 as stated: the stored last_update of a key never decreases.
C30_LastUpdateNeverDecreases ==
    [][\A key \in DOMAIN lState :
          /\ key \in DOMAIN lState'
          /\ lState'[key].last_update >= lState[key].last_update]_vars

----------------------------------------------------------------------------
(* Properties of the replay cache *)

\* C22 as stated: the replay set never holds more entries than the
\* configured max_size.
C22_ReplaySetBounded == Cardinality(cCache.seen) <= cMax

\* is_replayed(j) is called in this step and cleans up first.
Purges(j) ==
    /\ CheckReplay(j)
    /\ ~Falsy(j)
    /\ Cardinality(cCache.seen) % CleanupEvery = 0

\* C23: a cleanup at clock reading now removes every entry recorded with
\* exp < now, which is then reported as not seen, and keeps every entry
\* recorded with exp >= now, which is still reported as a replay, as well
\* as every entry recorded without exp.
C23_PurgeRemovesExactlyExpired ==
    [][\A j \in ReplayJtis :
          Purges(j) =>
              /\ \A k \in DOMAIN cCache.jti_timestamps :
                    IF cCache.jti_timestamps[k] < cNow
                    THEN /\ k \notin cCache'.seen
                         /\ k \notin DOMAIN cCache'.jti_timestamps
                         /\ j = k => ~cOut'.result
                    ELSE /\ k \in cCache'.seen
                         /\ k \in DOMAIN cCache'.jti_timestamps
                         /\ cCache'.jti_timestamps[k] = cCache.jti_timestamps[k]
                         /\ j = k => cOut'.result
              /\ \A k \in cCache.seen \ DOMAIN cCache.jti_timestamps :
                    k \in cCache'.seen]_vars

\* The cleanup removed j1, recorded with an exp before now, and kept j2,
\* recorded with exp = now; j1 was reported as not seen.
C23_Witness ==
    /\ cOut = [op |-> "is_replayed", jti |-> "j1", result |-> FALSE]
    /\ "j1" \notin cCache.seen
    /\ "j2" \in DOMAIN cCache.jti_timestamps
    /\ cCache.jti_timestamps["j2"] = cNow
    /\ cCache.seen = FillerJtis \cup {"j2"}

\* C24 as stated: is_replayed removes an entry from the replay set only
\* when it was recorded with an exp and now > exp + clock_drift.
C24_EvictedOnlyAfterDrift ==
    [][\A j \in ReplayJtis :
          CheckReplay(j) =>
              \A k \in cCache.seen \ cCache'.seen :
                  /\ k \in DOMAIN cCache.jti_timestamps
                  /\ cNow > cCache.jti_timestamps[k] + jwt_clock_drift_seconds]_vars

\* C25 as stated: a jti seen through one ReplayCache instance is reported
\* as a replay by the instance that replaced it.
C25_ReplayStateSurvivesRestart ==
    \A j \in cBefore : is_replayed(cCache, j, cNow).result

----------------------------------------------------------------------------
(* The pipeline and the replay set *)

\* C36 as stated: a request that got past the replay check has left its jti
\* in the replay set together with the exp claim of its credential.
C36_JtiRecordedWithExp ==
    \A r \in Requests :
        PassedReplay(r) =>
            /\ decoded[r].jti \in DOMAIN replay_cache.jti_timestamps
            /\ decoded[r].exp = {replay_cache.jti_timestamps[decoded[r].jti]}

\* Request q got past the replay check and was answered DENY with LOW_SCORE
\* or INTERNAL_ERROR.
DeniedAfterRecord(q) ==
    /\ PassedReplay(q) /\ Done(q)
    /\ resp[q].decision = "DENY"
    /\ resp[q].reason \cap {"LOW_SCORE", "INTERNAL_ERROR"} # {}

\* C40: the jti is recorded before the score is fetched and stays in the
\* replay set whatever the request ends with; a request presenting the
\* credential of a request denied with LOW_SCORE or INTERNAL_ERROR never
\* reaches the score fetch and gets no score-based verdict: it is answered
\* DENY without a score, and with REPLAY_DETECTED when it gets as far as
\* the replay check (past the rate limiter and the verifier, which run
\* before it).
C40_DeniedJtiStaysRecorded ==
    [][/\ \A q \in Requests :
             PassedReplay(q) =>
                 /\ decoded[q].jti \in replay_cache.seen
                 /\ decoded[q].jti \in replay_cache'.seen
       /\ \A r \in Requests :
             (Arrives(r) /\ pc'[r] = "fetch") => decoded'[r].jti \in replay_cache'.seen
       /\ \A r \in Requests :
             (Arrives(r) /\ \E q \in Requests : DeniedAfterRecord(q) /\ tok[q] = tok'[r]) =>
                 /\ pc'[r] = "done"
                 /\ resp'[r].decision = "DENY"
                 /\ resp'[r].score = None
                 /\ resp'[r].reason # {"LOW_SCORE"}
                 /\ calls'[r] \in {<<"is_allowed">>, <<"is_allowed", "validate_token">>,
                                   <<"is_allowed", "validate_token", "is_replayed">>}
                 /\ Len(calls'[r]) = 3 => resp'[r].reason = {"REPLAY_DETECTED"}
                 /\ IsPayload(decoded'[r]) => resp'[r].reason = {"REPLAY_DETECTED"}]_vars

\* A credential was denied with LOW_SCORE and, presented again, was answered
\* REPLAY_DETECTED; its jti is in the replay set.
C40_Witness ==
    \E q, r \in Requests :
        /\ q < r /\ tok[q] = tok[r]
        /\ DeniedAfterRecord(q) /\ resp[q].reason = {"LOW_SCORE"}
        /\ Done(r) /\ resp[r].reason = {"REPLAY_DETECTED"}
        /\ decoded[q].jti \in replay_cache.seen

\* The token count is_allowed computes before it tests it: the stored
\* count refilled for the time since last_update, capped at max_tokens.
Refilled(bucket, t) ==
    LET refilled == float_add(bucket.tokens,
                              float_mul_int(t - bucket.last_update,
                                            float_div_60(rate_limit_requests_per_minute)))
    IN  IF float_lt_int(refilled, max_tokens) THEN refilled
        ELSE float_of_int(max_tokens)

\* C38: the step of a request that the rate limiter admitted leaves the
\* bucket one token below its refilled count, whatever the request is
\* answered in that step (a verification reason, REPLAY_DETECTED or
\* INTERNAL_ERROR) or later, and the rest of the request (the score fetch,
\* the verdict, an exception) leaves the bucket as it is.
C38_ConsumedTokenNotRefunded ==
    [][\A r \in Requests :
          /\ (Arrives(r) /\ Len(calls'[r]) >= 2) =>
                /\ "global" \in DOMAIN rl_state'
                /\ rl_state'["global"].last_update = now
                /\ rl_state'["global"].tokens =
                       IF "global" \in DOMAIN rl_state
                       THEN float_add(Refilled(rl_state["global"], now),
                                      float_of_int(-1))
                       ELSE float_of_int(max_tokens - 1)
          /\ (pc[r] = "fetch" /\ pc'[r] = "done") => rl_state' = rl_state]_vars

\* A request with a badly signed credential took the last token and the
\* request after it, in the same second, was refused by the rate limiter;
\* no request was ever answered ALLOW or MONITOR.
C38_Witness ==
    \E q, r \in Requests :
        /\ q < r /\ ts[q] = ts[r]
        /\ Done(q) /\ resp[q].reason = {"INVALID_SIGNATURE"}
        /\ Done(r) /\ resp[r].reason = {"RATE_LIMIT_EXCEEDED"}
        /\ metrics.allow_count = 0 /\ metrics.monitor_count = 0
        /\ float_eq_int(rl_state["global"].tokens, 0)

----------------------------------------------------------------------------
(* The replay check on an empty or missing jti *)

\* C37: is_replayed answers True for the empty string and for a missing jti
\* in every state and leaves the cache as it is, record does not store
\* either of them, and is_replayed answers False for a non-empty jti that
\* is not in the set.
C37_EmptyJtiIsReplay ==
    [][\A j \in ReplayJtis :
          /\ (CheckReplay(j) /\ j \in {"", NoClaim}) =>
                (cOut'.result /\ cCache' = cCache)
          /\ (j \in {"", NoClaim} /\ \E e \in ReplayExps : Record(j, e)) =>
                cCache' = cCache
          /\ (CheckReplay(j) /\ j \notin {"", NoClaim} /\ j \notin cCache.seen) =>
                ~cOut'.result]_vars

\* The empty jti was reported as a replay by a cache that holds other jtis
\* and not the empty one.
C37_Witness ==
    /\ cOut.op = "is_replayed" /\ cOut.jti = "" /\ cOut.result
    /\ cCache.seen # {} /\ cCache.seen \cap {"", NoClaim} = {}

----------------------------------------------------------------------------
(* The order of the verifier's checks *)

\* The credential under test parses and its signature verifies under the
\* configured algorithm.
Decodes == vTok.raw = "jwt" /\ vTok.alg = vAlg /\ vTok.sig = "good"

\* The credential under test is past exp + clock_drift at the clock reading
\* of the run, and is before nbf - clock_drift.
PastExp == \E e \in vTok.exp : vNow > e + jwt_clock_drift_seconds
BeforeNbf == \E n \in vTok.nbf : vNow < n - jwt_clock_drift_seconds

\* C32 as stated: the verifier reports the first failing check in the
\* order: empty credential (malformed), parse and signature (malformed or
\* invalid_signature), exp absent (malformed), now > exp + drift (expired),
\* nbf present and now < nbf - drift (not_yet_valid), sub or jti absent
\* (malformed).  A badly signed credential that is also expired is
\* invalid_signature, an expired one that is also not yet valid or lacks
\* jti is expired, and expired and not_yet_valid are reported only for a
\* credential whose signature verified.  Stated for the credentials whose
\* claims have the types the specification gives them.
C32_FirstFailingCheck ==
    (Verdict /\ vTok.mistyped = {}) =>
        /\ vTok.raw = "empty" => vOut.error = "malformed"
        /\ (vTok.raw # "empty" /\ ~Decodes) =>
              vOut.error \in {"malformed", "invalid_signature"}
        /\ (vTok.raw = "jwt" /\ vTok.alg = vAlg /\ vTok.sig = "bad") =>
              vOut.error = "invalid_signature"
        /\ (Decodes /\ vTok.exp = None) => vOut.error = "malformed"
        /\ (Decodes /\ PastExp) => vOut.error = "expired"
        /\ (Decodes /\ vTok.exp # None /\ ~PastExp /\ BeforeNbf) =>
              vOut.error = "not_yet_valid"
        /\ (Decodes /\ vTok.exp # None /\ ~PastExp /\ ~BeforeNbf
              /\ (vTok.sub = NoClaim \/ vTok.jti = NoClaim)) =>
              vOut.error = "malformed"
        /\ vOut.error \in {"expired", "not_yet_valid"} => Decodes


----------------------------------------------------------------------------
(* The verdict counters *)

\* The finished requests answered with decision d.
Decided(d) == {r \in Requests : Done(r) /\ resp[r].decision = d}

\* C39 as stated: every request counts once in total_requests and, once it
\* is finished, once in the counter of the decision of its response: with
\* no request in flight allow_count + monitor_count + deny_count =
\* total_requests, and allow_count and monitor_count are the numbers of
\* ALLOW and MONITOR responses (the requests served before the run were all
\* denied).
C39_VerdictCountersPartitionRequests ==
    /\ metrics.total_requests - Cardinality({r \in Requests : Started(r)})
           \in {0, BurstLen}
    /\ (\A r \in Requests : pc[r] # "fetch") =>
          /\ metrics.allow_count + metrics.monitor_count + metrics.deny_count
                 = metrics.total_requests
          /\ metrics.allow_count = Cardinality(Decided("ALLOW"))
          /\ metrics.monitor_count = Cardinality(Decided("MONITOR"))

----------------------------------------------------------------------------
(* The configuration of the rate limiter *)

\* The burst size the configuration asks for: RATE_LIMIT_BURST_SIZE, or 1.2
\* times the quota per minute when it is unset.
ConfiguredBurst ==
    IF gEnv.RATE_LIMIT_BURST_SIZE # None
    THEN CHOOSE n \in gEnv.RATE_LIMIT_BURST_SIZE : TRUE
    ELSE (Settings(gEnv).rate_limit_requests_per_minute * 12) \div 10

\* C31 as stated: the rate limiter lifespan builds has the configured burst
\* size as its capacity and the configured quota per minute / 60 as its
\* refill rate per second, and admits no more calls within the first second
\* than the configured burst size.
C31_CapacityAndRateFollowConfiguration ==
    \A self \in gLimiter :
        /\ self.max_tokens = ConfiguredBurst
        /\ self.refill_rate = float_div_60(Settings(gEnv).rate_limit_requests_per_minute)
        /\ gNow = StartTime => gAdm <= ConfiguredBurst

----------------------------------------------------------------------------
(* Cached score retrieval *)

\* The calls of the score repository caller c has made, by name.
OpsOf(c) == [i \in 1..Len(kCalls[c]) |-> kCalls[c][i].op]

\* Caller c starts, gets the answer of the record store, finishes its cache
\* write in this step.
Starts(c) == kPc[c] = "idle" /\ kPc'[c] # "idle"
GetsRecord(c) == kPc[c] = "db" /\ kPc'[c] # "db"
Writes(c) == kPc[c] = "write" /\ kPc'[c] = "done"

\* C33: with the redis provider, a get_score that finds a value in the
\* cache (also a cached 0) returns it and makes no other call; on a miss
\* (get_cached_score returned None: no entry, no redis client, a failing
\* redis, or the ScoreRepository, which caches nothing) it asks the record
\* store; a record's score is then handed to cache_score with TTL
\* score_cache_ttl_seconds, which a working redis stores, and returned;
\* without a record 0 is returned and nothing is written.
C33_CacheFirstThenRecordStore ==
    [][\A c \in Callers :
          /\ (Starts(c) /\ kUp = "up" /\ kRedis # None) =>
                /\ kPc'[c] = "done"
                /\ kOut'[c] = {e.text.decimal_of : e \in kRedis}
                /\ OpsOf(c)' = <<"get_cached_score">>
                /\ kRedis' = kRedis
          /\ (Starts(c) /\ (kUp \in {"mock", "absent", "down"} \/ kRedis = None)
                        /\ kUp # "unset") =>
                /\ kPc'[c] = "db" /\ kOut'[c] = None
          /\ (GetsRecord(c) /\ kDb.k = "int") =>
                /\ kPc'[c] = "write" /\ kRedis' = kRedis
          /\ (GetsRecord(c) /\ kDb.k = "none") =>
                /\ kPc'[c] = "done" /\ kOut'[c] = {0}
                /\ OpsOf(c)' = <<"get_cached_score", "get_score">>
                /\ kRedis' = kRedis
          /\ (Writes(c) /\ kDb.k = "int") =>
                /\ kOut'[c] = {kDb.v}
                /\ OpsOf(c)' = <<"get_cached_score", "get_score", "cache_score">>
                /\ kCalls'[c][3].args = <<kDb.v, score_cache_ttl_seconds>>
                /\ kUp = "up" =>
                      kRedis' = {CacheEntry(kDb.v, score_cache_ttl_seconds)}]_vars

\* One caller was answered the cached 0 with the single call
\* get_cached_score while the record store holds another score, and the
\* other caller, after the entry was gone, got the record's score and wrote
\* it to the cache.
C33_Witness ==
    \E c, d \in Callers :
        /\ kPc[c] = "done" /\ kOut[c] = {0} /\ OpsOf(c) = <<"get_cached_score">>
        /\ kDb = Reply("int", MONITOR_THRESHOLD)
        /\ kPc[d] = "done" /\ kOut[d] = {MONITOR_THRESHOLD}
        /\ OpsOf(d) = <<"get_cached_score", "get_score", "cache_score">>
        /\ kRedis = {CacheEntry(MONITOR_THRESHOLD, score_cache_ttl_seconds)}

\* Caller c missed the cache, got a score from the record store, and its
\* cache write failed.
WriteFailed(c) ==
    /\ kPc[c] = "done" /\ Len(kCalls[c]) = 3
    /\ kCalls[c][1].result = Returned(None)
    /\ kCalls[c][2].result.k = "int"
    /\ ~kCalls[c][3].result.stored

\* C34: a get_score that missed the cache, got score s from the record store
\* and failed to write it to the cache returns s.
C34_CacheWriteFailureSwallowed ==
    \A c \in Callers :
        WriteFailed(c) => kOut[c] = {kCalls[c][2].result.v}

\* The write of the score 50 failed on a broken redis connection, the cache
\* is still empty, and 50 was returned.
C34_Witness ==
    \E c \in Callers :
        /\ WriteFailed(c) /\ kUp = "down" /\ kRedis = None
        /\ kOut[c] = {MONITOR_THRESHOLD}

\* C35 as stated: at most one lookup of the record store is in flight for
\* the principal.
C35_SingleFlight == Cardinality({c \in Callers : kPc[c] = "db"}) <= 1

====
